---- MODULE Spec2Model ----
(***************************************************************************)
(* Model of the gitorial extraction core (src/src/extractor.ts) and of the *)
(* slugify helper.  Strings are sequences of one-character strings; a tag  *)
(* prefix such as "template:" is one token of a message.                   *)
(***************************************************************************)
EXTENDS Integers, Sequences, FiniteSets, TLC

\* ------------------------------------------------------------------ bounds
\* longest commit stream returned by git log
MaxLen == 3
\* highest step directory number / most numbered entries in steps/
MaxStep == 3
MaxDirs == 3
\* longest title handed to slugify on its own
MaxTitle == 3
\* most stream positions handed to the two section assigners on their own
MaxPositions == 4

\* ---------------------------------------------------------------- options
None == <<>>
Some(x) == <<x>>
IsSome(o) == o # <<>>
Get(o) == o[1]

\* ---------------------------------------------------------------- strings
UpperChars == <<"A","B","C","D","E","F","G","H","I","J","K","L","M",
                "N","O","P","Q","R","S","T","U","V","W","X","Y","Z">>
LowerChars == <<"a","b","c","d","e","f","g","h","i","j","k","l","m",
                "n","o","p","q","r","s","t","u","v","w","x","y","z">>
DigitChars == <<"0","1","2","3","4","5","6","7","8","9">>

Range(s) == { s[i] : i \in DOMAIN s }

\* String.prototype.toLowerCase, one character
ToLowerChar(c) ==
  IF \E i \in DOMAIN UpperChars : UpperChars[i] = c
  THEN LowerChars[CHOOSE i \in DOMAIN UpperChars : UpperChars[i] = c]
  ELSE c

ToLowerCase(s) == [i \in DOMAIN s |-> ToLowerChar(s[i])]

\* the regular expression class \w
IsWordChar(c) ==
  c \in Range(UpperChars) \cup Range(LowerChars) \cup Range(DigitChars) \cup {"_"}

\* .replace(/[^\w ]+/g, ''): every character that is neither \w nor a space goes
RECURSIVE StripNonWord(_)
StripNonWord(s) ==
  IF s = <<>> THEN <<>>
  ELSE IF IsWordChar(Head(s)) \/ Head(s) = " "
       THEN <<Head(s)>> \o StripNonWord(Tail(s))
       ELSE StripNonWord(Tail(s))

\* .replace(/ +/g, '-'): every maximal run of spaces becomes one hyphen
RECURSIVE HyphenateSpaces(_)
HyphenateSpaces(s) ==
  IF s = <<>> THEN <<>>
  ELSE IF Head(s) = " "
       THEN IF Len(s) > 1 /\ s[2] = " "
            THEN HyphenateSpaces(Tail(s))
            ELSE <<"-">> \o HyphenateSpaces(Tail(s))
       ELSE <<Head(s)>> \o HyphenateSpaces(Tail(s))

slugify(text) == HyphenateSpaces(StripNonWord(ToLowerCase(text)))

\* String.prototype.trim (the only whitespace of the model is the space)
RECURSIVE TrimStart(_)
TrimStart(s) ==
  IF s # <<>> /\ Head(s) = " " THEN TrimStart(Tail(s)) ELSE s

RECURSIVE TrimEnd(_)
TrimEnd(s) ==
  IF s # <<>> /\ s[Len(s)] = " " THEN TrimEnd(SubSeq(s, 1, Len(s) - 1)) ELSE s

Trim(s) == TrimEnd(TrimStart(s))

\* message.startsWith(prefix), the prefix being one token
StartsWith(message, prefix) == message # <<>> /\ Head(message) = prefix

\* message.substring(prefix.length)
AfterPrefix(message) == Tail(message)

\* ------------------------------------------------------------ commit input
\* Commit subjects: a tag token followed by the raw title.  "Template:" is a
\* subject that matches no prefix (the prefixes are case-sensitive).
SectionMessages  == { <<"section:", " ", "a">>, <<"section:", " ", "A">> }
TemplateMessages == { <<"template:", " ", "a">>, <<"template:", " ", "A">> }
SolutionMessages == { <<"solution:", " ", "a">>, <<"solution:", "a">> }
ActionMessages   == { <<"action:", " ", "b">> }
ReadmeMessages   == { <<"readme:", " ", "a">> }
OtherMessages    == { <<"Template:", " ", "a">> }

\* the hash git prints for the i-th commit of the log; hashes are unique
HashOf(i) == 1000 + i

\* the four commits the test script makes before it runs the tool
TestSectionTitle == <<"T","e","s","t"," ","S","e","c","t","i","o","n">>
TestTemplateTitle == <<"I","m","p","l","e","m","e","n","t"," ","H","e","l","l","o"," ","W","o","r","l","d">>
TestActionTitle == <<"A","d","d"," ","P","a","c","k","a","g","e"," ","C","o","n","f","i","g","u","r","a","t","i","o","n">>
TestStream ==
  << [hash |-> HashOf(1), message |-> <<"section:", " ">> \o TestSectionTitle],
     [hash |-> HashOf(2), message |-> <<"template:", " ">> \o TestTemplateTitle],
     [hash |-> HashOf(3), message |-> <<"solution:", " ">> \o TestTemplateTitle],
     [hash |-> HashOf(4), message |-> <<"action:", " ">> \o TestActionTitle] >>

CommitMessages ==
  SectionMessages \cup TemplateMessages \cup SolutionMessages \cup
  ActionMessages \cup ReadmeMessages \cup OtherMessages

\* git log --reverse --format="%H %s", split into { hash, message }
GeneratedStreams ==
  UNION { { [i \in 1..n |-> [hash |-> HashOf(i), message |-> ms[i]]] :
            ms \in [1..n -> CommitMessages] } : n \in 1..MaxLen }

\* the logs the commit pipeline is run on
CommitStreams == GeneratedStreams \cup { TestStream }

\* commits.findIndex(c => c.hash === h): 1-based here, 0 where the code has -1
FindIndex(commits, h) ==
  IF \E i \in DOMAIN commits : commits[i].hash = h
  THEN CHOOSE i \in DOMAIN commits :
         /\ commits[i].hash = h
         /\ \A j \in DOMAIN commits : commits[j].hash = h => i <= j
  ELSE 0

\* ------------------------------------------------------------ data records
NewSection(title, slug, hash, order, stepOrder) ==
  [title |-> title, slug |-> slug, hash |-> hash, lessons |-> <<>>,
   order |-> order, stepOrder |-> stepOrder]

\* a deviation of NewLesson: the slug is the title as it is
NewLessonRawSlug(title, type, order) ==
  [title |-> title, slug |-> title, type |-> type, order |-> order,
   templateHash |-> None, solutionHash |-> None, sourceHash |-> None,
   templateStep |-> None, solutionStep |-> None, sourceStep |-> None,
   templateContent |-> None, solutionContent |-> None, sourceContent |-> None]

\* the fields shared by the lessons pushed in the pairing and source loops
NewLesson(title, type, order) ==
  [title |-> title, slug |-> slugify(title), type |-> type, order |-> order,
   templateHash |-> None, solutionHash |-> None, sourceHash |-> None,
   templateStep |-> None, solutionStep |-> None, sourceStep |-> None,
   templateContent |-> None, solutionContent |-> None, sourceContent |-> None]

\* ------------------------------------------------- commit mode, first pass
\* a deviation of SectionOrderOnPush: the order is the 0-based index
SectionOrderZeroBased(sections) == Len(sections)

\* order: sections.length + 1
SectionOrderOnPush(sections) == Len(sections) + 1

EmptyGroups ==
  [sections |-> <<>>, templateCommits |-> <<>>, solutionCommits |-> <<>>,
   actionCommits |-> <<>>]

Titled(c) == [hash |-> c.hash, message |-> Trim(AfterPrefix(c.message))]

\* a deviation of GroupCommit: an unrecognized subject is kept as an action
GroupCommitKeepingUnknown(g, c) ==
  IF StartsWith(c.message, "readme:") THEN g
  ELSE IF StartsWith(c.message, "section:")
  THEN [g EXCEPT !.sections =
          Append(@, NewSection(Trim(AfterPrefix(c.message)),
                               slugify(Trim(AfterPrefix(c.message))),
                               Some(c.hash), SectionOrderOnPush(@), None))]
  ELSE IF StartsWith(c.message, "template:")
  THEN [g EXCEPT !.templateCommits = Append(@, Titled(c))]
  ELSE IF StartsWith(c.message, "solution:")
  THEN [g EXCEPT !.solutionCommits = Append(@, Titled(c))]
  ELSE [g EXCEPT !.actionCommits = Append(@, Titled(c))]

\* one iteration of the grouping loop
GroupCommit(g, c) ==
  IF StartsWith(c.message, "readme:") THEN g
  ELSE IF StartsWith(c.message, "section:")
  THEN [g EXCEPT !.sections =
          Append(@, NewSection(Trim(AfterPrefix(c.message)),
                               slugify(Trim(AfterPrefix(c.message))),
                               Some(c.hash), SectionOrderOnPush(@), None))]
  ELSE IF StartsWith(c.message, "template:")
  THEN [g EXCEPT !.templateCommits = Append(@, Titled(c))]
  ELSE IF StartsWith(c.message, "solution:")
  THEN [g EXCEPT !.solutionCommits = Append(@, Titled(c))]
  ELSE IF StartsWith(c.message, "action:")
  THEN [g EXCEPT !.actionCommits = Append(@, Titled(c))]
  ELSE g

RECURSIVE GroupCommits(_, _, _)
GroupCommits(commits, i, g) ==
  IF i > Len(commits) THEN g
  ELSE GroupCommits(commits, i + 1, GroupCommit(g, commits[i]))

GettingStarted ==
  <<"G","e","t","t","i","n","g"," ","S","t","a","r","t","e","d">>
GettingStartedSlug ==
  <<"g","e","t","t","i","n","g","-","s","t","a","r","t","e","d">>

\* a deviation of WithDefaultSection: the default section gets order 0
WithDefaultSectionUnordered(sections) ==
  IF Len(sections) = 0
  THEN <<NewSection(GettingStarted, GettingStartedSlug, None, 0, None)>>
  ELSE sections

\* if (sections.length === 0) push the default section
WithDefaultSection(sections) ==
  IF Len(sections) = 0
  THEN <<NewSection(GettingStarted, GettingStartedSlug, None, 1, None)>>
  ELSE sections

\* ------------------------------------------------ commit mode, second pass
\* a deviation of MatchingSolution: commits are compared by hash, not by title
MatchingSolutionByHash(solutionCommits, template) ==
  LET hits == { i \in DOMAIN solutionCommits : solutionCommits[i].hash = template.hash }
  IN IF hits = {} THEN None
     ELSE Some(solutionCommits[CHOOSE i \in hits : \A j \in hits : i <= j])

\* a deviation of MatchingSolution: the first solution commit is taken, whatever
\* its title
MatchingSolutionAny(solutionCommits, template) ==
  IF solutionCommits = <<>> THEN None ELSE Some(solutionCommits[1])

\* a deviation of MatchingSolution: the last solution commit of the title is
\* taken
MatchingSolutionLast(solutionCommits, template) ==
  LET hits == { i \in DOMAIN solutionCommits :
                  Trim(solutionCommits[i].message) = Trim(template.message) }
  IN IF hits = {} THEN None
     ELSE Some(solutionCommits[CHOOSE i \in hits : \A j \in hits : i >= j])

\* solutionCommits.find(s => s.message.trim() === template.message.trim())
MatchingSolution(solutionCommits, template) ==
  LET hits == { i \in DOMAIN solutionCommits :
                  Trim(solutionCommits[i].message) = Trim(template.message) }
  IN IF hits = {} THEN None
     ELSE Some(solutionCommits[CHOOSE i \in hits : \A j \in hits : i <= j])

\* a deviation of TemplateLesson: a template without a matching solution is
\* pushed as a source lesson
TemplateLessonOrSource(solutionCommits, template) ==
  LET m == MatchingSolution(solutionCommits, template)
  IN IF IsSome(m)
     THEN [NewLesson(template.message, "template-solution", 0) EXCEPT
             !.templateHash = Some(template.hash),
             !.solutionHash = Some(Get(m).hash)]
     ELSE [NewLesson(template.message, "source", 0) EXCEPT
             !.sourceHash = Some(template.hash)]

\* the lesson pushed for one template commit
TemplateLesson(solutionCommits, template) ==
  LET m == MatchingSolution(solutionCommits, template)
  IN [NewLesson(template.message, "template-solution", 0) EXCEPT
        !.templateHash = Some(template.hash),
        !.solutionHash = IF IsSome(m) THEN Some(Get(m).hash) ELSE None]

\* actionCommits.map(...)
ActionLesson(action) ==
  [NewLesson(action.message, "source", 0) EXCEPT !.sourceHash = Some(action.hash)]

\* the hash a lesson is placed by: templateHash or sourceHash
LessonHash(lesson) ==
  IF lesson.type = "template-solution" THEN Get(lesson.templateHash)
  ELSE Get(lesson.sourceHash)

\* Array.prototype.sort on [key, val] entries: stable insertion sort by key
RECURSIVE InsertByKey(_, _)
InsertByKey(sorted, x) ==
  IF sorted = <<>> THEN <<x>>
  ELSE IF x.key < Head(sorted).key THEN <<x>> \o sorted
       ELSE <<Head(sorted)>> \o InsertByKey(Tail(sorted), x)

RECURSIVE SortByKey(_)
SortByKey(s) ==
  IF s = <<>> THEN <<>>
  ELSE InsertByKey(SortByKey(SubSeq(s, 1, Len(s) - 1)), s[Len(s)])

Values(keyed) == [i \in DOMAIN keyed |-> keyed[i].val]

\* templateSolutionPairs, sourceLessons, their concatenation, sorted by the
\* commit index of the lesson's hash
CommitLessons(commits, g) ==
  LET pairs   == [i \in DOMAIN g.templateCommits |->
                    TemplateLesson(g.solutionCommits, g.templateCommits[i])]
      sources == [i \in DOMAIN g.actionCommits |-> ActionLesson(g.actionCommits[i])]
      all     == pairs \o sources
  IN Values(SortByKey([i \in DOMAIN all |->
              [key |-> FindIndex(commits, LessonHash(all[i])), val |-> all[i]]]))

\* ---------------------------------------------- commit mode, distribution
SectionCommitIndex(commits, section) ==
  IF IsSome(section.hash) THEN FindIndex(commits, Get(section.hash)) ELSE 0

\* for (i = currentSectionIndex + 1; i < sections.length; i++)
\*   if (sectionCommitIndex > -1 && sectionCommitIndex < lessonCommitIndex)
\*     currentSectionIndex = i
RECURSIVE ScanLaterSections(_, _, _, _, _)
ScanLaterSections(commits, sections, i, cur, lessonCommitIndex) ==
  IF i > Len(sections) THEN cur
  ELSE LET sci == SectionCommitIndex(commits, sections[i])
       IN ScanLaterSections(commits, sections, i + 1,
            IF sci > 0 /\ sci < lessonCommitIndex THEN i ELSE cur,
            lessonCommitIndex)

\* a deviation of CommitSectionIndex: the carried index never advances
CommitSectionIndexStuck(commits, sections, cur, lesson) == cur

\* the section index of a lesson, given the index carried from the last lesson
CommitSectionIndex(commits, sections, cur, lesson) ==
  ScanLaterSections(commits, sections, cur + 1, cur,
                    FindIndex(commits, LessonHash(lesson)))

\* a deviation of LessonOrderOnPush: the order is the 0-based index
LessonOrderZeroBased(section) == Len(section.lessons)

\* lesson.order = sections[k].lessons.length + 1
LessonOrderOnPush(section) == Len(section.lessons) + 1

\* sections[k].lessons.push(lesson), with its order set
PushLesson(sections, k, lesson) ==
  [sections EXCEPT ![k].lessons =
     Append(@, [lesson EXCEPT !.order = LessonOrderOnPush(sections[k])])]

RECURSIVE DistributeCommitLessons(_, _, _, _, _)
DistributeCommitLessons(commits, lessons, n, sections, cur) ==
  IF n > Len(lessons) THEN sections
  ELSE LET k == CommitSectionIndex(commits, sections, cur, lessons[n])
       IN DistributeCommitLessons(commits, lessons, n + 1,
                                  PushLesson(sections, k, lessons[n]), k)

\* ---------------------------------------------------------------- snapshots
\* A file name is a sequence of fragments, so that String.includes can be
\* computed; a path is a sequence of names; a tree is a set of files, each
\* readable or not.
MetadataName   == <<"gitorial_metadata.json">>
MetadataBackup == <<"gitorial_metadata.json", ".bak">>
AttributesName == <<".gitattributes">>
IgnoreName     == <<".gitignore">>
ReadmeName     == <<"README.md">>
MainName       == <<"main.js">>
SrcName        == <<"src">>

File(path, readable) == [path |-> path, readable |-> readable]

FullTree(readmeReadable) ==
  { File(<<ReadmeName>>, readmeReadable),
    File(<<MetadataName>>, TRUE),
    File(<<AttributesName>>, TRUE),
    File(<<IgnoreName>>, TRUE),
    File(<<SrcName, MainName>>, TRUE),
    File(<<SrcName, MetadataName>>, TRUE),
    File(<<SrcName, MetadataBackup>>, TRUE),
    File(<<SrcName, IgnoreName>>, TRUE) }

SmallTree == { File(<<MetadataName>>, TRUE), File(<<MainName>>, TRUE) }

\* the file trees a snapshot read may find
Trees == { FullTree(TRUE), FullTree(FALSE), SmallTree }

\* name.includes(fragment)
NameIncludes(name, fragment) == fragment \in Range(name)

\* file.includes(fragment), file being the path joined with "/"
PathIncludes(path, fragment) ==
  \E i \in DOMAIN path : NameIncludes(path[i], fragment)

\* the text read for a path of the snapshot with identity id
TextOf(id, path) == <<id, path>>

\* the filter on the output of git ls-tree -r --name-only
CommitFileKept(path) ==
  /\ ~PathIncludes(path, "gitorial_metadata.json")
  /\ ~PathIncludes(path, ".gitattributes")
  /\ path # <<IgnoreName>>

\* a deviation of getCommitContent: the first file that cannot be read ends the
\* loop with nothing kept
getCommitContentAllOrNothing(tree, commitHash) ==
  LET files == { f \in tree : CommitFileKept(f.path) }
  IN IF \E f \in files : ~f.readable THEN << >>
     ELSE [p \in { f.path : f \in files } |-> TextOf(commitHash, p)]

getCommitContent(tree, commitHash) ==
  LET files == { f \in tree : CommitFileKept(f.path) }
      read  == { f.path : f \in { g \in files : g.readable } }
  IN [p \in read |-> TextOf(commitHash, p)]

\* a deviation of DirectoryFileKept: only the attributes file is skipped
DirectoryFileKeptWithMetadata(name) == ~NameIncludes(name, ".gitattributes")

\* the filter on a directory entry that is not a directory
DirectoryFileKept(name) ==
  ~(NameIncludes(name, "gitorial_metadata.json") \/ NameIncludes(name, ".gitattributes"))

IsUnder(path, dir) ==
  Len(path) > Len(dir) /\ SubSeq(path, 1, Len(dir)) = dir

\* fs.readdir(dir, { withFileTypes: true })
DirEntries(tree, dir) == { f.path[Len(dir) + 1] : f \in { g \in tree : IsUnder(g.path, dir) } }

EntryIsDirectory(tree, full) == \E f \in tree : IsUnder(f.path, full)

\* the paths readFilesRecursively stores, relative to the base directory
RECURSIVE readFilesRecursively(_, _)
readFilesRecursively(tree, dir) ==
  UNION { IF EntryIsDirectory(tree, Append(dir, n))
          THEN readFilesRecursively(tree, Append(dir, n))
          ELSE IF DirectoryFileKept(n) /\ File(Append(dir, n), TRUE) \in tree
               THEN { Append(dir, n) }
               ELSE {}
        : n \in DirEntries(tree, dir) }

getDirectoryContent(tree, dirPath) ==
  [p \in readFilesRecursively(tree, <<>>) |-> TextOf(dirPath, p)]

\* ----------------------------------------------------------- steps input
NaN == -1

DigitValue(c) == (CHOOSE i \in DOMAIN DigitChars : DigitChars[i] = c) - 1
IsDigit(c) == c \in Range(DigitChars)

\* parseInt: the value of the leading digits, NaN without a leading digit
RECURSIVE ParseDigits(_, _)
ParseDigits(name, acc) ==
  IF name = <<>> \/ ~IsDigit(Head(name)) THEN acc
  ELSE ParseDigits(Tail(name), 10 * acc + DigitValue(Head(name)))

parseInt(name) ==
  IF name = <<>> \/ ~IsDigit(Head(name)) THEN NaN ELSE ParseDigits(name, 0)

\* the name of the step directory with number n, zero-padded
DirName(n) == <<"0", DigitChars[n + 1]>>
OtherEntryName == <<"R", "E", "A", "D", "M", "E">>

StepTags == { <<"section:">>, <<"template:">>, <<"solution:">>, <<"action:">>,
              <<"readme:">>, <<"Template:">> }

\* the tags of the steps that make sections and pairs
PairingTags == { Some(<<"section:">>), Some(<<"template:">>), Some(<<"solution:">>) }

\* what a numbered entry of steps/ can be: a plain file; a directory whose
\* gitorial_metadata.json is missing or unparsable (meta = None); a directory
\* with a commit message and no README heading; a template with a
\* README whose first heading is "# a "
EntryShapes ==
  { [isDir |-> FALSE, meta |-> None, readme |-> None],
    [isDir |-> TRUE,  meta |-> None, readme |-> None] }
  \cup { [isDir |-> TRUE, meta |-> Some(t), readme |-> None] : t \in StepTags }
  \cup { [isDir |-> TRUE, meta |-> Some(<<"template:">>), readme |-> Some(<<"a", " ">>)] }

Entry(name, shape) ==
  [name |-> name, isDir |-> shape.isDir, meta |-> shape.meta, readme |-> shape.readme]

\* the listings fs.readdir(steps) can return: at most MaxDirs entries, the
\* numbered ones with distinct numbers up to MaxStep, and possibly one entry
\* whose name is no number
\* and, for numberings with gaps, the listings of section, template and
\* solution directories that reach one number further
StepListings ==
  LET numbered == UNION { [D -> EntryShapes] : D \in SUBSET (1..MaxStep) }
      sparse   == UNION { [D -> { x \in EntryShapes : x.meta \in PairingTags /\ x.readme = None }] :
                            D \in SUBSET (1..(MaxStep + 1)) }
      AsSet(f) == { Entry(DirName(n), f[n]) : n \in DOMAIN f }
      other    == Entry(OtherEntryName, [isDir |-> FALSE, meta |-> None, readme |-> None])
  IN { AsSet(f) : f \in { g \in numbered \cup sparse : Cardinality(DOMAIN g) <= MaxDirs } }
     \cup { AsSet(f) \cup {other} :
              f \in { g \in numbered : Cardinality(DOMAIN g) < MaxDirs } }

\* ---------------------------------------------- steps mode, first pass
RECURSIVE SetToSeq(_)
SetToSeq(S) ==
  IF S = {} THEN <<>>
  ELSE LET x == CHOOSE y \in S : TRUE IN <<x>> \o SetToSeq(S \ {x})

\* stepDirs.filter(dir => !isNaN(parseInt(dir))).sort((a, b) => parseInt(a) - parseInt(b))
SortedStepDirs(stepDirs) ==
  LET numeric == SetToSeq({ e \in stepDirs : parseInt(e.name) # NaN })
  IN Values(SortByKey([i \in DOMAIN numeric |->
              [key |-> parseInt(numeric[i].name), val |-> numeric[i]]]))

\* title: the first level-1 heading of the README, trimmed, else `Step ${stepDir}`
StepTitle(entry) ==
  IF IsSome(entry.readme) THEN Trim(Get(entry.readme))
  ELSE <<"S", "t", "e", "p", " ">> \o entry.name

\* stepType, from the commit message of the metadata
StepType(commitMessage) ==
  IF StartsWith(commitMessage, "section:") THEN "section"
  ELSE IF StartsWith(commitMessage, "template:") THEN "template"
  ELSE IF StartsWith(commitMessage, "solution:") THEN "solution"
  ELSE IF StartsWith(commitMessage, "action:") THEN "action"
  ELSE "unknown"

\* the Step pushed for a directory whose metadata was read
StepOf(entry) ==
  [dir |-> entry.name, path |-> entry.name, title |-> StepTitle(entry),
   type |-> StepType(Get(entry.meta)), commitMessage |-> Get(entry.meta),
   order |-> parseInt(entry.name)]

\* The loop over sortedStepDirs.  A non-directory is skipped; a directory
\* without readable, parsable metadata throws.  read lists the directories
\* whose metadata read was attempted.
RECURSIVE ReadSteps(_, _, _)
ReadSteps(dirs, i, acc) ==
  IF i > Len(dirs) THEN acc
  ELSE IF ~dirs[i].isDir THEN ReadSteps(dirs, i + 1, acc)
  ELSE IF ~IsSome(dirs[i].meta)
       THEN [acc EXCEPT !.failed = TRUE, !.read = Append(@, dirs[i].name)]
       ELSE ReadSteps(dirs, i + 1,
              [acc EXCEPT !.allSteps = Append(@, StepOf(dirs[i])),
                          !.read = Append(@, dirs[i].name)])

\* a deviation of FirstPassOfSteps: a directory without metadata is read with
\* an empty commit message instead of throwing
FirstPassWithoutMetadata(sorted) ==
  ReadSteps([i \in DOMAIN sorted |->
               IF sorted[i].isDir /\ ~IsSome(sorted[i].meta)
               THEN [sorted[i] EXCEPT !.meta = Some(<<>>)]
               ELSE sorted[i]],
            1, [failed |-> FALSE, allSteps |-> <<>>, read |-> <<>>])

FirstPassOfSteps(sorted) ==
  ReadSteps(sorted, 1, [failed |-> FALSE, allSteps |-> <<>>, read |-> <<>>])

\* --------------------------------------------- steps mode, second pass
RECURSIVE FilterType(_, _)
FilterType(steps, type) ==
  IF steps = <<>> THEN <<>>
  ELSE IF Head(steps).type = type THEN <<Head(steps)>> \o FilterType(Tail(steps), type)
       ELSE FilterType(Tail(steps), type)

\* the loop that creates one section per section step
RECURSIVE StepSections(_, _)
StepSections(sectionSteps, sections) ==
  IF sectionSteps = <<>> THEN sections
  ELSE StepSections(Tail(sectionSteps),
         Append(sections,
           NewSection(Head(sectionSteps).title, slugify(Head(sectionSteps).title),
                      None, SectionOrderOnPush(sections), Some(Head(sectionSteps).order))))

\* a deviation of SectionsOfSteps: a default section where no step is a section
SectionsOfStepsOrDefault(allSteps) ==
  WithDefaultSection(StepSections(FilterType(allSteps, "section"), <<>>))

\* sectionSteps and the sections created from them
SectionsOfSteps(allSteps) == StepSections(FilterType(allSteps, "section"), <<>>)

\* (section.stepOrder || 0)
StepOrderOrZero(section) ==
  IF IsSome(section.stepOrder) THEN Get(section.stepOrder) ELSE 0

\* a deviation of SortSections: the sections are sorted by descending step order
SortSectionsDescending(sections) ==
  Values(SortByKey([i \in DOMAIN sections |->
           [key |-> 0 - StepOrderOrZero(sections[i]), val |-> sections[i]]]))

\* sections.sort((a, b) => (a.stepOrder || 0) - (b.stepOrder || 0))
SortSections(sections) ==
  Values(SortByKey([i \in DOMAIN sections |->
           [key |-> StepOrderOrZero(sections[i]), val |-> sections[i]]]))

\* a deviation of MatchingSolutionStep: steps are matched by title
MatchingSolutionStepByTitle(solutionSteps, template) ==
  LET hits == { i \in DOMAIN solutionSteps :
                  Trim(solutionSteps[i].title) = Trim(template.title) }
  IN IF hits = {} THEN None
     ELSE Some(solutionSteps[CHOOSE i \in hits : \A j \in hits : i <= j])

\* a deviation of MatchingSolutionStep: the first solution step after the
\* template is taken, whatever its number
MatchingSolutionStepNextAfter(solutionSteps, template) ==
  LET hits == { i \in DOMAIN solutionSteps :
                  parseInt(solutionSteps[i].dir) > parseInt(template.dir) }
  IN IF hits = {} THEN None
     ELSE Some(solutionSteps[CHOOSE i \in hits : \A j \in hits : i <= j])

\* a deviation of MatchingSolutionStep: the solution step two numbers after the
\* template is taken
MatchingSolutionStepSkippingOne(solutionSteps, template) ==
  LET hits == { i \in DOMAIN solutionSteps :
                  parseInt(solutionSteps[i].dir) = parseInt(template.dir) + 2 }
  IN IF hits = {} THEN None
     ELSE Some(solutionSteps[CHOOSE i \in hits : \A j \in hits : i <= j])

\* solutionSteps.find(s => parseInt(s.dir) === parseInt(template.dir) + 1)
MatchingSolutionStep(solutionSteps, template) ==
  LET hits == { i \in DOMAIN solutionSteps :
                  parseInt(solutionSteps[i].dir) = parseInt(template.dir) + 1 }
  IN IF hits = {} THEN None
     ELSE Some(solutionSteps[CHOOSE i \in hits : \A j \in hits : i <= j])

TemplateStepLesson(solutionSteps, template) ==
  [NewLesson(template.title, "template-solution", template.order) EXCEPT
     !.templateStep = Some(template),
     !.solutionStep = MatchingSolutionStep(solutionSteps, template)]

SourceStepLesson(step) ==
  [NewLesson(step.title, "source", step.order) EXCEPT !.sourceStep = Some(step)]

RECURSIVE FilterUncategorized(_, _)
FilterUncategorized(steps, categorized) ==
  IF steps = <<>> THEN <<>>
  ELSE IF Head(steps).dir \in categorized
       THEN FilterUncategorized(Tail(steps), categorized)
       ELSE <<Head(steps)>> \o FilterUncategorized(Tail(steps), categorized)

\* a deviation of UncategorizedSteps: steps of unknown type are left out
UncategorizedStepsDropped(steps, categorized) == <<>>

\* allSteps.filter(step => !categorizedStepDirs.has(step.dir))
UncategorizedSteps(steps, categorized) == FilterUncategorized(steps, categorized)

\* templateSolutionPairs, sourceLessons and uncategorizedLessons, concatenated
\* and sorted by order, which still is the step number
StepLessons(allSteps) ==
  LET sectionSteps  == FilterType(allSteps, "section")
      templateSteps == FilterType(allSteps, "template")
      solutionSteps == FilterType(allSteps, "solution")
      actionSteps   == FilterType(allSteps, "action")
      categorized   == { x.dir : x \in Range(sectionSteps) \cup Range(templateSteps)
                                   \cup Range(solutionSteps) \cup Range(actionSteps) }
      uncategorized == UncategorizedSteps(allSteps, categorized)
      pairs   == [i \in DOMAIN templateSteps |->
                    TemplateStepLesson(solutionSteps, templateSteps[i])]
      sources == [i \in DOMAIN actionSteps |-> SourceStepLesson(actionSteps[i])]
      others  == [i \in DOMAIN uncategorized |-> SourceStepLesson(uncategorized[i])]
      all     == pairs \o sources \o others
  IN Values(SortByKey([i \in DOMAIN all |-> [key |-> all[i].order, val |-> all[i]]]))

\* --------------------------------------------- steps mode, distribution
\* for (i = 0; i < sections.length; i++)
\*   if ((sections[i].stepOrder || 0) < lesson.order) sectionIndex = i; else break
RECURSIVE ScanSectionsFromFirst(_, _, _, _)
ScanSectionsFromFirst(sections, i, sectionIndex, lessonOrder) ==
  IF i > Len(sections) THEN sectionIndex
  ELSE IF StepOrderOrZero(sections[i]) < lessonOrder
       THEN ScanSectionsFromFirst(sections, i + 1, i, lessonOrder)
       ELSE sectionIndex

\* a deviation of StepSectionIndex: the scan starts from the last section
StepSectionIndexFromLast(sections, lesson) ==
  ScanSectionsFromFirst(sections, 1, Len(sections), lesson.order)

\* let sectionIndex = 0, then the scan
StepSectionIndex(sections, lesson) ==
  ScanSectionsFromFirst(sections, 1, 1, lesson.order)

RECURSIVE DistributeStepLessons(_, _, _)
DistributeStepLessons(lessons, n, sections) ==
  IF n > Len(lessons) THEN sections
  ELSE DistributeStepLessons(lessons, n + 1,
         PushLesson(sections, StepSectionIndex(sections, lessons[n]), lessons[n]))

\* ------------------------------------------------------------------- state
VARIABLES
  pc,               \* where extractGitorialData / extractDataFromSteps stands
  branch,           \* the branch argument
  hasStepsDir,      \* result of hasStepsDirectory
  viaFallback,      \* extractDataFromSteps was called from the commit pipeline
  commits,          \* the parsed git log
  templateCommits, solutionCommits, actionCommits,
  stepDirs,         \* what fs.readdir(steps) returned
  visited,          \* step directories whose metadata read was attempted
  allSteps,
  sections,
  allLessons,
  fetched,          \* identities handed to the snapshot reader, in call order
  result,           \* the GitorialData returned, None before the return
  error,            \* the error thrown, "" when none
  files,            \* the file tree the snapshots of this repository hold
  createdDirs,      \* the directories the generator made, None before it ran
  localBranch,      \* git show-ref --verify refs/heads/<branch> succeeded
  remoteBranches,   \* the branches git branch -r listed, None when it was not run or failed
  printed,          \* the lines validateGitorialRepo wrote to the console
  outputStructure,  \* the directories createOutputStructure made, None before it ran
  started,          \* the stages of the conversion that were started, in order
  exitCode,         \* the status the process ended with, None while it runs
  text, once, twice, \* slugify applied on its own
  layout,           \* the two section assigners on their own: what stands at each position
  byCommits,        \* the sections the assigner of the commit pipeline returns
  bySteps           \* the sections the assigner of the steps pipeline returns

vars == <<pc, branch, hasStepsDir, viaFallback, commits, templateCommits,
          solutionCommits, actionCommits, stepDirs, visited, allSteps, sections,
          allLessons, fetched, result, error, files, createdDirs, localBranch,
          remoteBranches, printed, outputStructure, started, exitCode, text, once,
          twice, layout, byCommits, bySteps>>

slugVars == <<text, once, twice>>
assignVars == <<layout, byCommits, bySteps>>
commitVars == <<commits, templateCommits, solutionCommits, actionCommits>>
stepVars == <<stepDirs, visited, allSteps>>
validatorVars == <<localBranch, remoteBranches, printed, outputStructure>>

Branches == { "master", "gitorial" }

Idle ==
  /\ hasStepsDir = FALSE /\ viaFallback = FALSE
  /\ commits = <<>> /\ templateCommits = <<>> /\ solutionCommits = <<>>
  /\ actionCommits = <<>>
  /\ stepDirs = {} /\ visited = <<>> /\ allSteps = <<>>
  /\ sections = <<>> /\ allLessons = <<>>
  /\ fetched = <<>> /\ result = None /\ error = "" /\ files = None /\ createdDirs = None
  /\ localBranch = FALSE /\ remoteBranches = None /\ printed = <<>>
  /\ outputStructure = None /\ started = <<>> /\ exitCode = None
  /\ byCommits = None /\ bySteps = None

Init ==
  /\ pc = "validate"
  /\ branch \in Branches
  /\ Idle
  /\ text = <<>> /\ once = None /\ twice = None
  /\ layout = <<>>

\* ------------------------------------- convertGitorialToDotCodeSchool
\* the five stages, in the order of the calls
Stages == <<"validate", "url", "structure", "extract", "generate">>

\* A stage before the extraction threw: the catch of
\* convertGitorialToDotCodeSchool logs and rethrows, the catch of the command
\* line calls process.exit(1).
FailExitsZero(message) ==
  /\ pc' = "failed"
  /\ error' = message
  /\ exitCode' = Some(0)

Fail(message) ==
  /\ pc' = "failed"
  /\ error' = message
  /\ exitCode' = Some(1)

FetchFirst == "Branch exists remotely but not locally. Please fetch it first."
NotFound == "Branch not found. Please specify an existing branch using the -b option."

\* What validateGitorialRepo meets: the path exists or not, is a repository or
\* not, has the branch or not, git branch -r lists a set of branches or fails
\* (None), README.md mentions the gitorial branch or not.
Repository(exists, isRepo, local, remote, mentions) ==
  [exists |-> exists, isRepo |-> isRepo, local |-> local, remote |-> remote,
   mentions |-> mentions]

Repositories ==
  { Repository(FALSE, FALSE, FALSE, None, FALSE),
    Repository(TRUE, FALSE, FALSE, None, FALSE),
    Repository(TRUE, TRUE, TRUE, None, FALSE) }
  \cup { Repository(TRUE, TRUE, FALSE, remote, mentions) :
           remote \in { None } \cup { Some(S) : S \in SUBSET Branches },
           mentions \in BOOLEAN }

\* the try block around git branch -r: the lines it prints and the error it
\* throws; the list of the local branches and the tip are left out
RemoteCheck(repo, b) ==
  IF repo.remote = None
  THEN [printed |-> <<>>, error |-> "git branch -r"]
  ELSE IF b \in Get(repo.remote)
  THEN [printed |-> <<"exists remotely but not locally",
                      "To use this branch, run the following commands:",
                      "git fetch origin", "git checkout",
                      "Then try running this tool again.">>,
        error |-> FetchFirst]
  ELSE [printed |-> (IF b = "gitorial" /\ repo.mentions
                     THEN <<"The README.md mentions a 'gitorial' branch">>
                     ELSE <<>>)
                    \o <<"does not exist locally or remotely">>,
        error |-> NotFound]

\* catch (remoteError): whatever the try block threw, the branch is reported
\* as missing locally and a new error is thrown
RemoteCheckCaught(repo, b) ==
  [printed |-> RemoteCheck(repo, b).printed \o <<"does not exist locally">>,
   error |-> NotFound]

\* the lines printed and the error thrown ("" when none) by validateGitorialRepo
ValidationOf(repo, b) ==
  IF ~repo.exists
  THEN [printed |-> <<"Validating">>, error |-> "Repository path does not exist"]
  ELSE IF ~repo.isRepo
  THEN [printed |-> <<"Validating">>, error |-> "is not a git repository"]
  ELSE IF repo.local
  THEN [printed |-> <<"Validating", "Using local branch",
                      "Repository validation successful">>,
        error |-> ""]
  ELSE [printed |-> <<"Validating">> \o RemoteCheckCaught(repo, b).printed,
        error |-> RemoteCheckCaught(repo, b).error]

\* 1. Validate input repository
validateGitorialRepo ==
  /\ pc = "validate"
  /\ \E repo \in Repositories :
       LET outcome == ValidationOf(repo, branch)
       IN /\ localBranch' = repo.local
          /\ remoteBranches' = repo.remote
          /\ printed' = outcome.printed
          /\ IF outcome.error = ""
             THEN pc' = "url" /\ UNCHANGED <<error, exitCode>>
             ELSE Fail(outcome.error)
  /\ started' = Append(started, "validate")
  /\ UNCHANGED <<outputStructure, createdDirs, files, branch, hasStepsDir, viaFallback,
                 commitVars, stepVars, sections, allLessons, fetched, result, slugVars, assignVars>>

\* 2. Extract GitHub URL from repository: the call returns a URL or throws
extractGitHubUrl ==
  /\ pc = "url"
  /\ \E found \in BOOLEAN :
       IF found
       THEN pc' = "structure" /\ UNCHANGED <<error, exitCode>>
       ELSE Fail("extractGitHubUrl")
  /\ started' = Append(started, "url")
  /\ UNCHANGED <<validatorVars, createdDirs, files, branch, hasStepsDir, viaFallback,
                 commitVars, stepVars, sections, allLessons, fetched, result, slugVars, assignVars>>

\* 3. Create output directory structure: two calls of fs.mkdir, each of which
\* may throw; the directories are paths relative to the output directory
createOutputStructure ==
  /\ pc = "structure"
  /\ \E made \in 0..2 :
       /\ outputStructure' = Some(CASE made = 0 -> {}
                                     [] made = 1 -> { <<>> }
                                     [] made = 2 -> { <<>>, << <<"sections">> >> })
       /\ IF made = 2
          THEN pc' = "entry" /\ UNCHANGED <<error, exitCode>>
          ELSE Fail("mkdir")
  /\ started' = Append(started, "structure")
  /\ UNCHANGED <<localBranch, remoteBranches, printed, createdDirs, files, branch,
                 hasStepsDir, viaFallback, commitVars, stepVars, sections, allLessons,
                 fetched, result, slugVars, assignVars>>

\* ------------------------------------------------- extractGitorialData
\* hasStepsDirectory, then the choice of the pipeline
SelectPipeline ==
  /\ pc = "entry"
  /\ \E exists \in BOOLEAN :
       /\ hasStepsDir' = exists
       /\ pc' = IF branch = "master" /\ exists THEN "steps" ELSE "commits"
  /\ started' = Append(started, "extract")
  /\ UNCHANGED <<validatorVars, exitCode, createdDirs, files, branch, viaFallback, commitVars, stepVars, sections, allLessons,
                 fetched, result, error, slugVars, assignVars>>

\* git log, the grouping loop and the default section
FirstPass ==
  /\ pc = "commits"
  /\ \E log \in CommitStreams :
       LET g == GroupCommits(log, 1, EmptyGroups)
       IN /\ commits' = log
          /\ templateCommits' = g.templateCommits
          /\ solutionCommits' = g.solutionCommits
          /\ actionCommits' = g.actionCommits
          /\ sections' = WithDefaultSection(g.sections)
  /\ pc' = "grouped"
  /\ UNCHANGED <<validatorVars, started, exitCode, createdDirs, files, branch, hasStepsDir, viaFallback, stepVars, allLessons, fetched,
                 result, error, slugVars, assignVars>>

\* pairing, the source lessons, and the sort by commit order
SecondPass ==
  /\ pc = "grouped"
  /\ allLessons' = CommitLessons(commits,
                     [sections |-> sections, templateCommits |-> templateCommits,
                      solutionCommits |-> solutionCommits,
                      actionCommits |-> actionCommits])
  /\ pc' = "paired"
  /\ UNCHANGED <<validatorVars, started, exitCode, createdDirs, files, branch, hasStepsDir, viaFallback, commitVars, stepVars, sections,
                 fetched, result, error, slugVars, assignVars>>

\* the loop that distributes the lessons across the sections
Distribute ==
  /\ pc = "paired"
  /\ sections' = DistributeCommitLessons(commits, allLessons, 1, sections, 1)
  /\ pc' = "distributed"
  /\ UNCHANGED <<validatorVars, started, exitCode, createdDirs, files, branch, hasStepsDir, viaFallback, commitVars, stepVars, allLessons,
                 fetched, result, error, slugVars, assignVars>>

\* a deviation of FallbackTaken: the steps directory is not asked for
FallbackOnNoLessons == Len(allLessons) = 0

\* if (allLessons.length === 0 && hasStepsDir)
FallbackTaken == Len(allLessons) = 0 /\ hasStepsDir

\* a deviation of FallbackCall: the fallback calls extractGitorialData's own
\* commit pipeline again
FallbackCallsCommits == "commits"

\* where the fallback goes on: the first statement of extractDataFromSteps
FallbackCall == "steps"

\* return await extractDataFromSteps(repoPath): the locals of the commit
\* pipeline are dead from here on
Fallback ==
  /\ pc = "distributed"
  /\ FallbackTaken
  /\ pc' = FallbackCall
  /\ viaFallback' = TRUE
  /\ commits' = <<>> /\ templateCommits' = <<>> /\ solutionCommits' = <<>>
  /\ actionCommits' = <<>> /\ sections' = <<>>
  /\ UNCHANGED <<validatorVars, started, exitCode, createdDirs, files, branch, hasStepsDir, stepVars, allLessons, fetched, result, error,
                 slugVars, assignVars>>

\* ------------------------------------------------------ content loops
\* The position of the content loop: the first lesson, in section and lesson
\* order, with an identity whose content has not been read yet.  slot is
\* "template", "solution" or "source".
HasIdentity(lesson, slot) ==
  CASE slot = "template" ->
         lesson.type = "template-solution" /\
         (IsSome(lesson.templateHash) \/ IsSome(lesson.templateStep))
    [] slot = "solution" ->
         lesson.type = "template-solution" /\
         (IsSome(lesson.solutionHash) \/ IsSome(lesson.solutionStep))
    [] slot = "source" ->
         lesson.type = "source" /\
         (IsSome(lesson.sourceHash) \/ IsSome(lesson.sourceStep))

ContentOf(lesson, slot) ==
  CASE slot = "template" -> lesson.templateContent
    [] slot = "solution" -> lesson.solutionContent
    [] slot = "source"   -> lesson.sourceContent

Slots == <<"template", "solution", "source">>

Pending(secs) ==
  { <<i, j, k>> \in (DOMAIN secs) \X (1..(MaxLen + MaxDirs + 2)) \X (DOMAIN Slots) :
      /\ j \in DOMAIN secs[i].lessons
      /\ HasIdentity(secs[i].lessons[j], Slots[k])
      /\ ~IsSome(ContentOf(secs[i].lessons[j], Slots[k])) }

Before(a, b) ==
  \/ a[1] < b[1]
  \/ a[1] = b[1] /\ a[2] < b[2]
  \/ a[1] = b[1] /\ a[2] = b[2] /\ a[3] <= b[3]

NextPending(secs) == CHOOSE a \in Pending(secs) : \A b \in Pending(secs) : Before(a, b)

SetContent(secs, at, content) ==
  CASE Slots[at[3]] = "template" ->
         [secs EXCEPT ![at[1]].lessons[at[2]].templateContent = Some(content)]
    [] Slots[at[3]] = "solution" ->
         [secs EXCEPT ![at[1]].lessons[at[2]].solutionContent = Some(content)]
    [] Slots[at[3]] = "source" ->
         [secs EXCEPT ![at[1]].lessons[at[2]].sourceContent = Some(content)]

CommitIdentity(lesson, slot) ==
  CASE slot = "template" -> Get(lesson.templateHash)
    [] slot = "solution" -> Get(lesson.solutionHash)
    [] slot = "source"   -> Get(lesson.sourceHash)

StepIdentity(lesson, slot) ==
  CASE slot = "template" -> Get(lesson.templateStep).path
    [] slot = "solution" -> Get(lesson.solutionStep).path
    [] slot = "source"   -> Get(lesson.sourceStep).path

\* Every snapshot of one repository lists the same files: the first read finds
\* one of Trees, the later reads find the same tree.
KnownTrees == IF IsSome(files) THEN { Get(files) } ELSE Trees

\* the content loop of the commit pipeline: one getCommitContent per identity,
\* in section, lesson and slot order; log lists the hashes asked for
RECURSIVE CommitContentLoop(_, _, _)
CommitContentLoop(secs, tree, log) ==
  IF Pending(secs) = {} THEN [sections |-> secs, fetched |-> log]
  ELSE LET at == NextPending(secs)
           id == CommitIdentity(secs[at[1]].lessons[at[2]], Slots[at[3]])
       IN CommitContentLoop(SetContent(secs, at, getCommitContent(tree, id)), tree,
                            Append(log, id))

\* the content loop of the commit pipeline, run when a lesson has an identity
ReadCommitContent ==
  /\ pc = "distributed"
  /\ ~FallbackTaken
  /\ Pending(sections) # {}
  /\ \E tree \in KnownTrees :
       LET read == CommitContentLoop(sections, tree, fetched)
       IN /\ files' = Some(tree)
          /\ sections' = read.sections
          /\ fetched' = read.fetched
  /\ UNCHANGED <<validatorVars, started, exitCode, createdDirs, pc, branch, hasStepsDir, viaFallback, commitVars, stepVars,
                 allLessons, result, error, slugVars, assignVars>>

\* a deviation of ReturnFromCommits: sections without any lesson are an error,
\* as sections missing are in the steps pipeline
ReturnFromCommitsOrThrow ==
  /\ pc = "distributed"
  /\ ~FallbackTaken
  /\ Pending(sections) = {}
  /\ IF Len(allLessons) = 0
     THEN /\ pc' = "thrown"
          /\ error' = "No lessons found in the gitorial"
          /\ exitCode' = Some(1)
          /\ UNCHANGED result
     ELSE /\ result' = Some([sections |-> sections])
          /\ pc' = "returned"
          /\ UNCHANGED <<error, exitCode>>
  /\ UNCHANGED <<validatorVars, started, createdDirs, files, branch, hasStepsDir, viaFallback, commitVars, stepVars, sections,
                 allLessons, fetched, slugVars, assignVars>>

\* return { sections } of the commit pipeline
ReturnFromCommits ==
  /\ pc = "distributed"
  /\ ~FallbackTaken
  /\ Pending(sections) = {}
  /\ result' = Some([sections |-> sections])
  /\ pc' = "returned"
  /\ UNCHANGED <<validatorVars, started, exitCode, createdDirs, files, branch, hasStepsDir, viaFallback, commitVars, stepVars, sections,
                 allLessons, fetched, error, slugVars, assignVars>>

\* ------------------------------------------------ extractDataFromSteps
\* The error leaves extractGitorialData, is logged and rethrown by the catch of
\* convertGitorialToDotCodeSchool, and reaches the catch of the command line,
\* which calls process.exit(1).
Throw(message) ==
  /\ pc' = "thrown"
  /\ error' = message
  /\ exitCode' = Some(1)

\* fs.readdir, the numeric filter and sort, and the loop that reads each step
ReadStepDirs ==
  /\ pc = "steps"
  /\ \E listing \in StepListings :
       LET sorted == SortedStepDirs(listing)
           pass   == FirstPassOfSteps(sorted)
       IN /\ stepDirs' = listing
          /\ IF Len(sorted) = 0
             THEN /\ Throw("No numbered step directories found in steps directory")
                  /\ UNCHANGED <<visited, allSteps>>
             ELSE IF pass.failed
             THEN /\ Throw("No metadata file or invalid JSON, continuing without it")
                  /\ visited' = pass.read
                  /\ UNCHANGED allSteps
             ELSE /\ pc' = "stepsRead"
                  /\ visited' = pass.read
                  /\ allSteps' = pass.allSteps
                  /\ UNCHANGED <<error, exitCode>>
  /\ allLessons' = <<>>
  /\ UNCHANGED <<validatorVars, started, createdDirs, files, branch, hasStepsDir, viaFallback, commitVars, sections, fetched,
                 result, slugVars, assignVars>>

\* sections from the section steps, the error without any, the sort of the
\* sections, pairing, and the sorted list of all lessons
OrganizeSteps ==
  /\ pc = "stepsRead"
  /\ LET created == SectionsOfSteps(allSteps)
     IN IF Len(created) = 0
        THEN /\ Throw("No sections found in the gitorial")
             /\ UNCHANGED <<sections, allLessons>>
        ELSE /\ sections' = SortSections(created)
             /\ allLessons' = StepLessons(allSteps)
             /\ pc' = "stepsOrganized"
             /\ UNCHANGED <<error, exitCode>>
  /\ UNCHANGED <<validatorVars, started, createdDirs, files, branch, hasStepsDir, viaFallback, commitVars, stepVars, fetched,
                 result, slugVars, assignVars>>

DistributeSteps ==
  /\ pc = "stepsOrganized"
  /\ sections' = DistributeStepLessons(allLessons, 1, sections)
  /\ pc' = "stepsDistributed"
  /\ UNCHANGED <<validatorVars, started, exitCode, createdDirs, files, branch, hasStepsDir, viaFallback, commitVars, stepVars, allLessons,
                 fetched, result, error, slugVars, assignVars>>

\* the content loop of the steps pipeline: one getDirectoryContent per step of
\* a lesson, in section, lesson and slot order; log lists the paths asked for
RECURSIVE StepContentLoop(_, _, _)
StepContentLoop(secs, tree, log) ==
  IF Pending(secs) = {} THEN [sections |-> secs, fetched |-> log]
  ELSE LET at == NextPending(secs)
           id == StepIdentity(secs[at[1]].lessons[at[2]], Slots[at[3]])
       IN StepContentLoop(SetContent(secs, at, getDirectoryContent(tree, id)), tree,
                          Append(log, id))

\* the content loop of the steps pipeline, run when there is a lesson
ReadStepContent ==
  /\ pc = "stepsDistributed"
  /\ Pending(sections) # {}
  /\ \E tree \in KnownTrees :
       LET read == StepContentLoop(sections, tree, fetched)
       IN /\ files' = Some(tree)
          /\ sections' = read.sections
          /\ fetched' = read.fetched
  /\ UNCHANGED <<validatorVars, started, exitCode, createdDirs, pc, branch, hasStepsDir, viaFallback, commitVars, stepVars,
                 allLessons, result, error, slugVars, assignVars>>

\* return { sections } of the steps pipeline
ReturnFromSteps ==
  /\ pc = "stepsDistributed"
  /\ Pending(sections) = {}
  /\ result' = Some([sections |-> sections])
  /\ pc' = "returnedSteps"
  /\ UNCHANGED <<validatorVars, started, exitCode, createdDirs, files, branch, hasStepsDir, viaFallback, commitVars, stepVars, sections,
                 allLessons, fetched, error, slugVars, assignVars>>

\* ---------------------------------------------- generateDotCodeSchoolCourse
\* Directories are paths relative to the output directory.
\* path.join(p, name): an empty segment adds nothing
PathJoin(p, name) == IF name = <<>> THEN p ELSE Append(p, name)

\* fs.mkdir(p, { recursive: true }): p and the directories above it
MkdirRecursive(p) == { SubSeq(p, 1, k) : k \in 1..Len(p) }

\* writeFiles: the directory of every file written; README.md is skipped
writeFiles(dirPath, content) ==
  UNION { MkdirRecursive(dirPath \o SubSeq(path, 1, Len(path) - 1)) :
            path \in { q \in DOMAIN content : q[Len(q)] # ReadmeName } }

WrittenIfPresent(dirPath, content) ==
  IF IsSome(content) THEN writeFiles(dirPath, Get(content)) ELSE {}

\* a deviation of createLesson: files/solution is made only for a lesson that
\* has solution content
createLessonSolutionIfPresent(lessonsPath, lesson) ==
  LET lessonPath == PathJoin(lessonsPath, lesson.slug)
      filesPath  == Append(lessonPath, <<"files">>)
  IN MkdirRecursive(lessonPath) \cup
     IF lesson.type = "template-solution"
     THEN MkdirRecursive(Append(filesPath, <<"template">>))
          \cup WrittenIfPresent(Append(filesPath, <<"template">>), lesson.templateContent)
          \cup (IF IsSome(lesson.solutionContent)
                THEN MkdirRecursive(Append(filesPath, <<"solution">>))
                ELSE {})
          \cup WrittenIfPresent(Append(filesPath, <<"solution">>), lesson.solutionContent)
     ELSE IF lesson.type = "source"
     THEN MkdirRecursive(Append(filesPath, <<"source">>))
          \cup WrittenIfPresent(Append(filesPath, <<"source">>), lesson.sourceContent)
     ELSE {}

\* the directories createLesson makes for one lesson
createLesson(lessonsPath, lesson) ==
  LET lessonPath == PathJoin(lessonsPath, lesson.slug)
      filesPath  == Append(lessonPath, <<"files">>)
  IN MkdirRecursive(lessonPath) \cup
     IF lesson.type = "template-solution"
     THEN MkdirRecursive(Append(filesPath, <<"template">>))
          \cup MkdirRecursive(Append(filesPath, <<"solution">>))
          \cup WrittenIfPresent(Append(filesPath, <<"template">>), lesson.templateContent)
          \cup WrittenIfPresent(Append(filesPath, <<"solution">>), lesson.solutionContent)
     ELSE IF lesson.type = "source"
     THEN MkdirRecursive(Append(filesPath, <<"source">>))
          \cup WrittenIfPresent(Append(filesPath, <<"source">>), lesson.sourceContent)
     ELSE {}

\* the directories createSection makes for one section and its lessons
createSection(section) ==
  LET sectionPath == PathJoin(<< <<"sections">> >>, section.slug)
      lessonsPath == Append(sectionPath, <<"lessons">>)
  IN MkdirRecursive(sectionPath) \cup MkdirRecursive(lessonsPath) \cup
     UNION { createLesson(lessonsPath, section.lessons[j]) : j \in DOMAIN section.lessons }

\* the loop over the sections of the data handed over by the extraction
generateDotCodeSchoolCourse ==
  /\ IsSome(result)
  /\ createdDirs = None
  /\ error = ""
  /\ \/ /\ createdDirs' = Some(UNION { createSection(Get(result).sections[i]) :
                                         i \in DOMAIN Get(result).sections })
        /\ exitCode' = Some(0)
        /\ UNCHANGED error
     \/ /\ error' = "generateDotCodeSchoolCourse"
        /\ exitCode' = Some(1)
        /\ UNCHANGED createdDirs
  /\ started' = Append(started, "generate")
  /\ UNCHANGED <<validatorVars, files, pc, branch, hasStepsDir, viaFallback, commitVars,
                 stepVars, sections, allLessons, fetched, result, slugVars, assignVars>>

Next ==
  \/ validateGitorialRepo
  \/ extractGitHubUrl
  \/ createOutputStructure
  \/ SelectPipeline
  \/ FirstPass
  \/ SecondPass
  \/ Distribute
  \/ Fallback
  \/ ReadCommitContent
  \/ ReturnFromCommits
  \/ ReadStepDirs
  \/ OrganizeSteps
  \/ DistributeSteps
  \/ ReadStepContent
  \/ ReturnFromSteps
  \/ generateDotCodeSchoolCourse

Spec == Init /\ [][Next]_vars

\* no statement is left to run: the process has exited
Ended == exitCode # None

\* Every call and every external read returns, so a run that has not ended
\* takes its next step: weak fairness of Next, its enabling condition being
\* ~Ended.
SpecLive == Spec /\ ([]<>Ended \/ []<><<Next>>_vars)

\* ------------------------------------------------------ slugify on its own
SlugAlphabet == { "A", "a", "_", " ", "-", "!" }

Titles == UNION { [1..n -> SlugAlphabet] : n \in 0..MaxTitle }

SlugInit ==
  /\ pc = "slug"
  /\ branch = "gitorial"
  /\ Idle
  /\ text \in Titles /\ once = None /\ twice = None
  /\ layout = <<>>

SlugifyText ==
  /\ pc = "slug"
  /\ once = None
  /\ once' = Some(slugify(text))
  /\ UNCHANGED <<validatorVars, started, exitCode, createdDirs, files, pc, branch, hasStepsDir, viaFallback, commitVars, stepVars, sections,
                 allLessons, fetched, result, error, text, twice, assignVars>>

SlugifySlug ==
  /\ pc = "slug"
  /\ once # None
  /\ twice = None
  /\ twice' = Some(slugify(Get(once)))
  /\ UNCHANGED <<validatorVars, started, exitCode, createdDirs, files, pc, branch, hasStepsDir, viaFallback, commitVars, stepVars, sections,
                 allLessons, fetched, result, error, text, once, assignVars>>

SlugNext == SlugifyText \/ SlugifySlug

SpecSlug == SlugInit /\ [][SlugNext]_vars

\* ------------------------------------- the two section assigners on their own
\* A stream of positions 1..n, each holding a section marker, a lesson or a
\* record of neither kind: the boundary positions and the lesson positions are
\* both ascending
Layouts ==
  UNION { [1..n -> { "section:", "action:", "readme:" }] : n \in 1..MaxPositions }

\* the positions of a kind, ascending
PositionsOf(l, kind) ==
  LET S == { p \in DOMAIN l : l[p] = kind }
  IN [i \in 1..Cardinality(S) |->
        CHOOSE p \in S : Cardinality({ q \in S : q < p }) = i - 1]

\* the log of the layout; a position is the index in the log and the number of
\* the step directory
StreamOf(l) == [p \in DOMAIN l |-> [hash |-> HashOf(p), message |-> <<l[p], " ", "a">>]]

\* the sections both pipelines hand to their distribution loop: one per
\* marker with its hash and its stepOrder, or the default section
SectionsOf(l) ==
  LET at == PositionsOf(l, "section:")
  IN WithDefaultSection([i \in DOMAIN at |->
       NewSection(<<"a">>, <<"a">>, Some(HashOf(at[i])), i, Some(at[i]))])

\* the lessons both pipelines hand to their distribution loop, sorted by
\* position: sourceHash for the commit pipeline, order for the steps pipeline
LessonsOf(l) ==
  LET at == PositionsOf(l, "action:")
  IN [i \in DOMAIN at |->
       [NewLesson(<<"a">>, "source", at[i]) EXCEPT !.sourceHash = Some(HashOf(at[i]))]]

AssignInit ==
  /\ pc = "assign"
  /\ branch = "gitorial"
  /\ Idle
  /\ text = <<>> /\ once = None /\ twice = None
  /\ layout \in Layouts

\* extractor.ts:156-176
AssignByCommits ==
  /\ pc = "assign"
  /\ byCommits = None
  /\ byCommits' = Some(DistributeCommitLessons(StreamOf(layout), LessonsOf(layout), 1,
                                               SectionsOf(layout), 1))
  /\ UNCHANGED <<validatorVars, started, exitCode, createdDirs, files, pc, branch,
                 hasStepsDir, viaFallback, commitVars, stepVars, sections, allLessons,
                 fetched, result, error, slugVars, layout, bySteps>>

\* extractor.ts:403-420
AssignBySteps ==
  /\ pc = "assign"
  /\ bySteps = None
  /\ bySteps' = Some(DistributeStepLessons(LessonsOf(layout), 1, SectionsOf(layout)))
  /\ UNCHANGED <<validatorVars, started, exitCode, createdDirs, files, pc, branch,
                 hasStepsDir, viaFallback, commitVars, stepVars, sections, allLessons,
                 fetched, result, error, slugVars, layout, byCommits>>

AssignNext == AssignByCommits \/ AssignBySteps

SpecAssign == AssignInit /\ [][AssignNext]_vars

\* ================================================================ properties
\* Vocabulary of the properties, read off the inputs (commits, stepDirs) and the
\* returned data, not off the intermediate lists of the pipelines.
ReturnedFromCommits == pc = "returned"
ReturnedFromSteps == pc = "returnedSteps"
Data == Get(result).sections

\* the (section index, lesson index) pairs of a list of sections
LessonSlots(secs) ==
  { <<i, j>> \in (DOMAIN secs) \X (1..(MaxLen + MaxDirs + 2)) : j \in DOMAIN secs[i].lessons }
LessonAt(secs, at) == secs[at[1]].lessons[at[2]]

\* commit history: positions by tag, the position of a hash
CommitsTagged(tag) == { i \in DOMAIN commits : Head(commits[i].message) = tag }
PositionOfHash(h) == CHOOSE i \in DOMAIN commits : commits[i].hash = h
CommitTitle(i) == Trim(Tail(commits[i].message))
LessonCommitPosition(lesson) ==
  IF lesson.type = "template-solution" THEN PositionOfHash(Get(lesson.templateHash))
  ELSE PositionOfHash(Get(lesson.sourceHash))

\* steps layout: the numbered directories, by tag
StepDirectories == { e \in stepDirs : parseInt(e.name) # NaN /\ e.isDir }
StepsTagged(tag) == { e \in StepDirectories : IsSome(e.meta) /\ Head(Get(e.meta)) = tag }
NumbersTagged(tag) == { parseInt(e.name) : e \in StepsTagged(tag) }
LessonStepNumber(lesson) ==
  IF lesson.type = "template-solution" THEN Get(lesson.templateStep).order
  ELSE Get(lesson.sourceStep).order

\* the stream position of a returned lesson and of the marker of a returned
\* section (0 for the default section), and the positions of all markers
LessonPosition(lesson) ==
  IF ReturnedFromCommits THEN LessonCommitPosition(lesson) ELSE LessonStepNumber(lesson)
BoundaryPosition(section) ==
  IF ReturnedFromCommits
  THEN IF IsSome(section.hash) THEN PositionOfHash(Get(section.hash)) ELSE 0
  ELSE Get(section.stepOrder)
MarkerPositions ==
  IF ReturnedFromCommits THEN CommitsTagged("section:") ELSE NumbersTagged("section:")

ClosestPrecedingMarker(section, lesson) ==
  /\ BoundaryPosition(section) <= LessonPosition(lesson)
  /\ ~\E m \in MarkerPositions :
        BoundaryPosition(section) < m /\ m < LessonPosition(lesson)

\* C1, as stated: in the data returned for a stream with a section marker, in
\* either mode, every lesson sits in the section of the closest section marker
\* at or before it.
C1_EveryLessonAfterItsMarker ==
  (IsSome(result) /\ MarkerPositions # {}) =>
    \A at \in LessonSlots(Data) : ClosestPrecedingMarker(Data[at[1]], LessonAt(Data, at))

\* C1, amended: a lesson that follows at least one section marker sits in the
\* section of the closest section marker before it; a lesson that precedes
\* every section marker sits in the first section.
C1_LessonAfterClosestMarker ==
  (IsSome(result) /\ MarkerPositions # {}) =>
    \A at \in LessonSlots(Data) :
      IF \E m \in MarkerPositions : m < LessonPosition(LessonAt(Data, at))
      THEN ClosestPrecedingMarker(Data[at[1]], LessonAt(Data, at))
      ELSE at[1] = 1

\* C1, its case: commit-history data with two markers and a lesson placed in
\* the second section.
C1_Witness ==
  /\ ReturnedFromCommits
  /\ Cardinality(CommitsTagged("section:")) >= 2
  /\ Len(Data) >= 2
  /\ Len(Data[2].lessons) >= 1

\* the template-solution lessons of the returned data with a given title
PairedLessonsTitled(title) ==
  { at \in LessonSlots(Data) :
      LessonAt(Data, at).type = "template-solution" /\ LessonAt(Data, at).title = title }

BothContents(lesson) == IsSome(lesson.templateContent) /\ IsSome(lesson.solutionContent)

\* C2, as stated: in commit-history mode, a template commit and a solution
\* commit with equal trimmed titles give exactly one template-solution lesson
\* of that title, holding template and solution content.
C2_OneLessonPerTitle ==
  ReturnedFromCommits =>
    \A t \in CommitsTagged("template:") : \A x \in CommitsTagged("solution:") :
      CommitTitle(t) = CommitTitle(x) =>
        /\ Cardinality(PairedLessonsTitled(CommitTitle(t))) = 1
        /\ \A at \in PairedLessonsTitled(CommitTitle(t)) : BothContents(LessonAt(Data, at))

\* the lessons of the returned data built from the template commit at position t
LessonsOfTemplate(t) ==
  { at \in LessonSlots(Data) :
      LessonAt(Data, at).type = "template-solution" /\
      LessonAt(Data, at).templateHash = Some(commits[t].hash) }

\* C2, amended: in commit-history mode, every template commit for which a
\* solution commit with an equal trimmed title exists gives exactly one
\* template-solution lesson of its own, with its title, holding template and
\* solution content, the solution being a commit of that title; template
\* commits sharing a title give one lesson each.
C2_OneLessonPerTemplate ==
  ReturnedFromCommits =>
    \A t \in CommitsTagged("template:") :
      (\E x \in CommitsTagged("solution:") : CommitTitle(t) = CommitTitle(x)) =>
        /\ Cardinality(LessonsOfTemplate(t)) = 1
        /\ \A at \in LessonsOfTemplate(t) :
             /\ LessonAt(Data, at).title = CommitTitle(t)
             /\ BothContents(LessonAt(Data, at))
             /\ IsSome(LessonAt(Data, at).solutionHash)
             /\ \E x \in CommitsTagged("solution:") :
                  /\ commits[x].hash = Get(LessonAt(Data, at).solutionHash)
                  /\ CommitTitle(x) = CommitTitle(t)

\* C2, its case: a template paired with a solution whose subject differs from
\* the template's only in the whitespace that trim removes.
C2_Witness ==
  /\ ReturnedFromCommits
  /\ \E t \in CommitsTagged("template:") : \E x \in CommitsTagged("solution:") :
       /\ Tail(commits[t].message) # Tail(commits[x].message)
       /\ \E at \in LessonsOfTemplate(t) :
            /\ LessonAt(Data, at).solutionHash = Some(commits[x].hash)
            /\ BothContents(LessonAt(Data, at))

\* the lessons of the returned data built from the template directory e
LessonsOfTemplateStep(e) ==
  { at \in LessonSlots(Data) :
      /\ LessonAt(Data, at).type = "template-solution"
      /\ IsSome(LessonAt(Data, at).templateStep)
      /\ Get(LessonAt(Data, at).templateStep).dir = e.name }

\* every text of a content map was read from the snapshot with identity id
ContentFrom(content, id) ==
  IsSome(content) /\ \A path \in DOMAIN Get(content) : Get(content)[path][1] = id

\* C3: in directory-listing mode a template at number p has a solution step
\* attached iff a solution step exists at number p + 1; then its template
\* content is read from directory p and its solution content from p + 1.
C3_SolutionAtNextNumber ==
  ReturnedFromSteps =>
    \A e \in StepsTagged("template:") :
      /\ Cardinality(LessonsOfTemplateStep(e)) = 1
      /\ \A at \in LessonsOfTemplateStep(e) :
           LET lesson == LessonAt(Data, at)
           IN /\ IsSome(lesson.solutionStep) <=>
                   (parseInt(e.name) + 1) \in NumbersTagged("solution:")
              /\ ContentFrom(lesson.templateContent, e.name)
              /\ IsSome(lesson.solutionStep) =>
                   /\ Get(lesson.solutionStep).order = parseInt(e.name) + 1
                   /\ Get(lesson.solutionStep).type = "solution"
                   /\ ContentFrom(lesson.solutionContent, Get(lesson.solutionStep).dir)
                   /\ \E x \in StepsTagged("solution:") :
                        x.name = Get(lesson.solutionStep).dir

\* C3, its case: a template with the solution of the next directory attached,
\* the two titles differing, both contents read and not empty.
C3_Witness ==
  /\ ReturnedFromSteps
  /\ \E at \in LessonSlots(Data) :
       LET lesson == LessonAt(Data, at)
       IN /\ IsSome(lesson.solutionStep)
          /\ Get(lesson.solutionStep).title # lesson.title
          /\ BothContents(lesson)
          /\ DOMAIN Get(lesson.templateContent) # {}
          /\ DOMAIN Get(lesson.solutionContent) # {}

\* C4: slugify is idempotent: slugify(slugify(x)) = slugify(x) for every title.
C4_SlugifyIdempotent ==
  IsSome(twice) => Get(twice) = Get(once)

\* C5: in the returned data of either mode the section at index i has order i
\* and the lesson at index j of a section has order j.
C5_OrdersAreIndexes ==
  IsSome(result) =>
    /\ \A i \in DOMAIN Data : Data[i].order = i
    /\ \A at \in LessonSlots(Data) : LessonAt(Data, at).order = at[2]

\* C5, its case: steps data with two sections and a lesson in the second one,
\* whose order differs from the number of its step.
C5_Witness ==
  /\ ReturnedFromSteps
  /\ Len(Data) >= 2
  /\ \E at \in LessonSlots(Data) :
       at[1] = 2 /\ LessonStepNumber(LessonAt(Data, at)) # LessonAt(Data, at).order

\* the lessons of the returned data built from the action commit at position a
LessonsOfAction(a) ==
  { at \in LessonSlots(Data) :
      LessonAt(Data, at).type = "source" /\
      LessonAt(Data, at).sourceHash = Some(commits[a].hash) }

HashesUsed ==
  UNION { Range(LessonAt(Data, at).templateHash) \cup Range(LessonAt(Data, at).solutionHash)
          \cup Range(LessonAt(Data, at).sourceHash) : at \in LessonSlots(Data) }

\* C7: commit-history data of a stream without a section commit has exactly
\* one section, Getting Started / getting-started / order 1, holding every
\* lesson of the stream; readme commits contribute nothing.
C7_DefaultSection ==
  (ReturnedFromCommits /\ CommitsTagged("section:") = {}) =>
    /\ Len(Data) = 1
    /\ Data[1].title = GettingStarted
    /\ Data[1].slug = GettingStartedSlug
    /\ Data[1].order = 1
    /\ Len(Data[1].lessons) =
         Cardinality(CommitsTagged("template:")) + Cardinality(CommitsTagged("action:"))
    /\ \A t \in CommitsTagged("template:") : LessonsOfTemplate(t) # {}
    /\ \A a \in CommitsTagged("action:") : LessonsOfAction(a) # {}
    /\ \A r \in CommitsTagged("readme:") : commits[r].hash \notin HashesUsed

\* C7, its case: a stream of a template and a readme commit, without section.
C7_Witness ==
  /\ ReturnedFromCommits
  /\ CommitsTagged("section:") = {}
  /\ CommitsTagged("readme:") # {}
  /\ CommitsTagged("template:") # {}
  /\ Len(Data[1].lessons) >= 1

\* the steps pipeline has read the listing of the steps folder
StepsListed ==
  pc \in { "stepsRead", "stepsOrganized", "stepsDistributed", "returnedSteps", "thrown" }

\* C8: in directory-listing mode, direct or after the fallback, a listing
\* without a section step ends in an error: the pipeline never gets past the
\* creation of the sections, returns nothing, creates no default section and
\* reads no snapshot.
C8_NoSectionStepIsFatal ==
  (StepsListed /\ StepsTagged("section:") = {}) =>
    /\ pc \in { "stepsRead", "thrown" }
    /\ result = None
    /\ sections = <<>>
    /\ fetched = <<>>

\* C8, its case: the fallback ran into a listing of readable steps, none of
\* them a section, and threw.
C8_Witness ==
  /\ pc = "thrown"
  /\ viaFallback
  /\ error = "No sections found in the gitorial"
  /\ StepsTagged("template:") # {}
  /\ StepsTagged("section:") = {}

\* the numbered directories without readable, parsable metadata
DirectoriesWithoutMetadata == { e \in StepDirectories : ~IsSome(e.meta) }
FirstWithoutMetadata ==
  CHOOSE e \in DirectoriesWithoutMetadata :
    \A x \in DirectoriesWithoutMetadata : parseInt(e.name) <= parseInt(x.name)

ContentMaps(secs) ==
  UNION { Range(LessonAt(secs, at).templateContent)
          \cup Range(LessonAt(secs, at).solutionContent)
          \cup Range(LessonAt(secs, at).sourceContent) : at \in LessonSlots(secs) }

\* C10: in both modes no key of a content map names a file called
\* gitorial_metadata.json, at any depth.
C10_NoMetadataFileInContent ==
  \A content \in ContentMaps(sections) :
    \A path \in DOMAIN content : path[Len(path)] # MetadataName

\* C10, its case: steps data read from a tree that holds the metadata file at
\* the top and in a subdirectory, next to a file that is kept.
C10_Witness ==
  /\ ReturnedFromSteps
  /\ IsSome(files)
  /\ File(<<MetadataName>>, TRUE) \in Get(files)
  /\ File(<<SrcName, MetadataName>>, TRUE) \in Get(files)
  /\ \E content \in ContentMaps(Data) : <<SrcName, MainName>> \in DOMAIN content

\* the last component of a path names an ignore file or a VCS attribute file
IsIgnoreOrAttributes(path) ==
  path[Len(path)] = IgnoreName \/ NameIncludes(path[Len(path)], ".gitattributes")

\* C11: in both modes no key of a content map names a file called .gitignore
\* or a file whose name contains .gitattributes, at any depth.
C11_NoIgnoreOrAttributesInContent ==
  \A content \in ContentMaps(sections) :
    \A path \in DOMAIN content : ~IsIgnoreOrAttributes(path)

\* the pipeline whose content loop fills the sections
InCommitContentLoop == pc \in { "distributed", "returned" }

\* the files a snapshot lists that its mode's filter lets through
ListedKept ==
  IF InCommitContentLoop
  THEN { f \in Get(files) : CommitFileKept(f.path) }
  ELSE { f \in Get(files) : DirectoryFileKept(f.path[Len(f.path)]) }

\* C12: in both modes every content map holds exactly the listed, non-filtered
\* files that could be read, each with the text of its own snapshot; a file
\* that cannot be read is absent and ends neither the snapshot nor the
\* extraction, which never fails once a snapshot was read.
C12_UnreadableFileIsSkipped ==
  /\ \A content \in ContentMaps(sections) :
       /\ DOMAIN content = { f.path : f \in { g \in ListedKept : g.readable } }
       /\ \A path \in DOMAIN content : content[path][2] = path
  /\ fetched # <<>> => pc # "thrown"

\* C12, its case: data returned after two reads of snapshots that list an
\* unreadable README.md before src/main.js; the maps hold src/main.js.
C12_Witness ==
  /\ IsSome(result)
  /\ IsSome(files)
  /\ File(<<ReadmeName>>, FALSE) \in Get(files)
  /\ ContentMaps(Data) # {}
  /\ \A content \in ContentMaps(Data) :
       <<ReadmeName>> \notin DOMAIN content /\ <<SrcName, MainName>> \in DOMAIN content
  /\ Len(fetched) >= 2

\* the step directories the lessons of a list of sections refer to
StepsUsed(secs) ==
  { x.dir : x \in UNION { Range(LessonAt(secs, at).templateStep)
                          \cup Range(LessonAt(secs, at).solutionStep)
                          \cup Range(LessonAt(secs, at).sourceStep) : at \in LessonSlots(secs) } }

\* the identities of the records tagged readme: of the stream being processed
ReadmeIdentities ==
  { commits[r].hash : r \in CommitsTagged("readme:") }
  \cup { e.name : e \in StepsTagged("readme:") }

\* C13: in both modes a record tagged readme: is dropped: no snapshot is ever
\* fetched for it, and in the returned data no lesson refers to it and no
\* section was created from it.
C13_ReadmeRecordsAreDropped ==
  /\ \A id \in ReadmeIdentities : id \notin Range(fetched)
  /\ IsSome(result) =>
       /\ \A r \in CommitsTagged("readme:") :
            /\ commits[r].hash \notin HashesUsed
            /\ \A i \in DOMAIN Data : Data[i].hash # Some(commits[r].hash)
       /\ \A e \in StepsTagged("readme:") :
            /\ e.name \notin StepsUsed(Data)
            /\ \A i \in DOMAIN Data : Data[i].stepOrder # Some(parseInt(e.name))

\* the four tags of the vocabulary
Vocabulary == { "section:", "template:", "solution:", "action:" }

\* sections and lessons without their content maps
LessonOutline(lesson) ==
  [title |-> lesson.title, slug |-> lesson.slug, type |-> lesson.type,
   order |-> lesson.order, templateHash |-> lesson.templateHash,
   solutionHash |-> lesson.solutionHash, sourceHash |-> lesson.sourceHash]
Outline(secs) ==
  [i \in DOMAIN secs |->
     [title |-> secs[i].title, slug |-> secs[i].slug, hash |-> secs[i].hash,
      order |-> secs[i].order,
      lessons |-> [j \in DOMAIN secs[i].lessons |-> LessonOutline(secs[i].lessons[j])]]]

\* what the commit pipeline places for a stream, before any content is read
PlacedFor(stream) ==
  LET g == GroupCommits(stream, 1, EmptyGroups)
  IN DistributeCommitLessons(stream, CommitLessons(stream, g), 1,
                             WithDefaultSection(g.sections), 1)

\* the commits of the stream whose tag is of the vocabulary
CommitsOfVocabulary == SelectSeq(commits, LAMBDA c : Head(c.message) \in Vocabulary)

\* the numbered step directories whose tag is not of the vocabulary
StepsOutsideVocabulary ==
  { e \in StepDirectories : IsSome(e.meta) /\ Head(Get(e.meta)) \notin Vocabulary }

\* the source lessons of the returned data built from the step directory e
SourceLessonsOfStep(e) ==
  { at \in LessonSlots(Data) :
      /\ LessonAt(Data, at).type = "source"
      /\ IsSome(LessonAt(Data, at).sourceStep)
      /\ Get(LessonAt(Data, at).sourceStep).dir = e.name }

\* C14: a record whose tag starts with none of section:, template:, solution:,
\* action: gives exactly one source lesson in directory-listing mode, and is
\* no template, solution or section there; in commit-history mode the
\* returned sections and lessons are those of the stream without such
\* records: they add no lesson, no section, and move no lesson.
C14_UnrecognizedRecords ==
  /\ ReturnedFromSteps =>
       \A e \in StepsOutsideVocabulary :
         /\ Cardinality(SourceLessonsOfStep(e)) = 1
         /\ \A at \in LessonSlots(Data) :
              /\ Range(LessonAt(Data, at).templateStep) \cap { x \in Range(allSteps) : x.dir = e.name } = {}
              /\ Range(LessonAt(Data, at).solutionStep) \cap { x \in Range(allSteps) : x.dir = e.name } = {}
         /\ \A i \in DOMAIN Data : Data[i].stepOrder # Some(parseInt(e.name))
  /\ ReturnedFromCommits =>
       Outline(Data) = Outline(PlacedFor(CommitsOfVocabulary))

\* C14, its case in commit-history mode: an unrecognized commit between a
\* section marker and a lesson, which sits in the section of that marker.
C14_Witness ==
  /\ ReturnedFromCommits
  /\ \E u \in DOMAIN commits : \E m \in CommitsTagged("section:") :
       /\ Head(commits[u].message) = "Template:"
       /\ m < u
       /\ \E at \in LessonSlots(Data) :
            /\ Data[at[1]].hash = Some(commits[m].hash)
            /\ u < LessonCommitPosition(LessonAt(Data, at))

\* C15: extractGitorialData enters the directory-listing pipeline directly
\* iff the branch is master and a steps directory exists, and enters the
\* commit-history pipeline otherwise; the commit-history pipeline, once its
\* lessons are placed, falls back to the directory-listing pipeline iff it has
\* zero lessons and a steps directory exists, before reading any snapshot,
\* and otherwise goes on to return its own sections; the directory-listing
\* pipeline is entered in no other way.
C15_PipelineSelection ==
  [][ /\ (pc = "entry" /\ pc' # pc) =>
           IF branch = "master" /\ hasStepsDir'
           THEN pc' = "steps" /\ ~viaFallback'
           ELSE pc' = "commits"
      /\ pc = "distributed" =>
           IF Len(allLessons) = 0 /\ hasStepsDir
           THEN pc' = "steps" /\ viaFallback' /\ fetched' = <<>> /\ result' = None
           ELSE /\ pc' \in { "distributed", "returned" }
                /\ pc' = "returned" => result' = Some([sections |-> sections])
      /\ (pc' = "steps" /\ pc # "steps") => pc \in { "entry", "distributed" }
    ]_vars

\* C15, its case: the commit pipeline of a branch other than master found no
\* lesson, fell back, and the directory-listing pipeline returned lessons.
C15_Witness ==
  /\ ReturnedFromSteps
  /\ viaFallback
  /\ branch # "master"
  /\ LessonSlots(Data) # {}

\* the hashes and step directories the lessons of a list of sections refer to
HashesOf(secs) ==
  UNION { Range(LessonAt(secs, at).templateHash) \cup Range(LessonAt(secs, at).solutionHash)
          \cup Range(LessonAt(secs, at).sourceHash) : at \in LessonSlots(secs) }
IdentitiesOf(secs) == HashesOf(secs) \cup StepsUsed(secs)

\* the records that are section markers, and the solutions no template matches
SectionMarkerIdentities ==
  { commits[i].hash : i \in CommitsTagged("section:") }
  \cup { e.name : e \in StepsTagged("section:") }
UnmatchedSolutionIdentities ==
  { commits[x].hash : x \in { y \in CommitsTagged("solution:") :
        ~\E t \in CommitsTagged("template:") : CommitTitle(t) = CommitTitle(y) } }
  \cup { e.name : e \in { x \in StepsTagged("solution:") :
        (parseInt(x.name) - 1) \notin NumbersTagged("template:") } }

\* C16: in both modes a snapshot is fetched only once every lesson sits in a
\* section, and only for the template, solution or source of a placed lesson,
\* which is a lesson of the returned data; the directory-listing pipeline starts
\* with no snapshot fetched, also after the fallback; no snapshot is fetched
\* for a section marker or for a solution that no template matches.
C16_SnapshotsAfterPlacement ==
  /\ fetched # <<>> =>
       /\ pc \in { "distributed", "returned", "stepsDistributed", "returnedSteps" }
       /\ Cardinality(LessonSlots(sections)) = Len(allLessons)
       /\ \A k \in DOMAIN fetched : fetched[k] \in IdentitiesOf(sections)
  /\ IsSome(result) => Data = sections
  /\ pc \in { "steps", "stepsRead", "stepsOrganized", "thrown" } => fetched = <<>>
  /\ \A id \in SectionMarkerIdentities \cup UnmatchedSolutionIdentities :
       id \notin Range(fetched)

\* C16, its case: commit-history data of a stream with a section marker, a
\* template and a solution of another title; one snapshot was fetched.
C16_Witness ==
  /\ ReturnedFromCommits
  /\ CommitsTagged("section:") # {}
  /\ CommitsTagged("template:") # {}
  /\ UnmatchedSolutionIdentities # {}
  /\ Len(fetched) = 1

\* the lessons of the returned data that refer to the identity id in any role
LessonsReferringTo(id) ==
  { at \in LessonSlots(Data) :
      LET lesson == LessonAt(Data, at)
      IN id \in Range(lesson.templateHash) \cup Range(lesson.solutionHash)
                \cup Range(lesson.sourceHash)
                \cup { x.dir : x \in Range(lesson.templateStep) \cup Range(lesson.solutionStep)
                                      \cup Range(lesson.sourceStep) } }

\* the lesson is of the paired variant with template content read from the
\* snapshot id and with neither solution nor source
PairedWithoutSolution(lesson, id) ==
  /\ lesson.type = "template-solution"
  /\ ContentFrom(lesson.templateContent, id)
  /\ lesson.solutionHash = None /\ lesson.solutionStep = None
  /\ lesson.solutionContent = None
  /\ lesson.sourceHash = None /\ lesson.sourceStep = None
  /\ lesson.sourceContent = None

InputTitleOfLesson(lesson) ==
  IF ReturnedFromCommits THEN CommitTitle(LessonCommitPosition(lesson))
  ELSE StepTitle(CHOOSE e \in StepDirectories : parseInt(e.name) = LessonStepNumber(lesson))
InputTitleOfSection(section) ==
  IF ReturnedFromCommits
  THEN IF IsSome(section.hash) THEN CommitTitle(PositionOfHash(Get(section.hash)))
       ELSE GettingStarted
  ELSE StepTitle(CHOOSE e \in StepDirectories : parseInt(e.name) = Get(section.stepOrder))

\* C18, as stated: in the returned data section slugs are pairwise distinct and
\* lesson slugs are pairwise distinct within each section.
C18_SlugsAreUnique ==
  IsSome(result) =>
    /\ \A i \in DOMAIN Data : \A j \in DOMAIN Data : i # j => Data[i].slug # Data[j].slug
    /\ \A at \in LessonSlots(Data) : \A bt \in LessonSlots(Data) :
         (at[1] = bt[1] /\ at[2] # bt[2]) => LessonAt(Data, at).slug # LessonAt(Data, bt).slug

\* C18, amended: in the returned data the slug of every section and of every
\* lesson is slugify of the title its record has in the input; so two sections,
\* or two lessons of one section, have distinct slugs exactly when slugify
\* tells their titles apart.
C18_SlugsFollowTitles ==
  IsSome(result) =>
    /\ \A i \in DOMAIN Data :
         /\ Data[i].title = InputTitleOfSection(Data[i])
         /\ Data[i].slug = slugify(Data[i].title)
    /\ \A at \in LessonSlots(Data) :
         /\ LessonAt(Data, at).title = InputTitleOfLesson(LessonAt(Data, at))
         /\ LessonAt(Data, at).slug = slugify(LessonAt(Data, at).title)

\* C18, its case: a section of the returned data with two lessons of distinct
\* slugs, one of them differing from its title.
C18_Witness ==
  /\ IsSome(result)
  /\ \E at \in LessonSlots(Data) : \E bt \in LessonSlots(Data) :
       /\ at[1] = bt[1]
       /\ LessonAt(Data, at).slug # LessonAt(Data, bt).slug
       /\ LessonAt(Data, at).slug # LessonAt(Data, at).title

\* the directory files/<kind> of the lesson with slug lessonSlug in the section
\* with slug sectionSlug
FilesDir(sectionSlug, lessonSlug, kind) ==
  << <<"sections">>, sectionSlug, <<"lessons">>, lessonSlug, <<"files">>, <<kind>> >>

\* C19: once the generator ran, every template-solution lesson of the data has
\* the directories files/template and files/solution under
\* sections/<section slug>/lessons/<lesson slug>, and every source lesson has
\* files/source there; every such directory made belongs to a lesson of that
\* type; the stream of the test script (section, template T, solution T,
\* action A) gives files/template and files/solution for slug(T) and
\* files/source for slug(A) under the section's slug.
C19_FilesDirectoriesPerLesson ==
  IsSome(createdDirs) =>
    /\ \A at \in LessonSlots(Data) :
         LET lesson == LessonAt(Data, at)
             sec    == Data[at[1]].slug
         IN IF lesson.type = "template-solution"
            THEN /\ FilesDir(sec, lesson.slug, "template") \in Get(createdDirs)
                 /\ FilesDir(sec, lesson.slug, "solution") \in Get(createdDirs)
            ELSE FilesDir(sec, lesson.slug, "source") \in Get(createdDirs)
    /\ \A d \in Get(createdDirs) :
         (Len(d) = 6 /\ d[5] = <<"files">>) =>
           \E at \in LessonSlots(Data) :
             /\ d = FilesDir(Data[at[1]].slug, LessonAt(Data, at).slug, d[6][1])
             /\ d[6][1] = "source" <=> LessonAt(Data, at).type = "source"
    /\ commits = TestStream =>
         /\ FilesDir(slugify(TestSectionTitle), slugify(TestTemplateTitle), "template")
              \in Get(createdDirs)
         /\ FilesDir(slugify(TestSectionTitle), slugify(TestTemplateTitle), "solution")
              \in Get(createdDirs)
         /\ FilesDir(slugify(TestSectionTitle), slugify(TestActionTitle), "source")
              \in Get(createdDirs)
         /\ Len(slugify(TestTemplateTitle)) = 21
         /\ slugify(TestSectionTitle) =
              <<"t", "e", "s", "t", "-", "s", "e", "c", "t", "i", "o", "n">>

\* C19, its case: the generator ran on the data extracted from the stream of
\* the test script.
C19_Witness ==
  /\ IsSome(createdDirs)
  /\ commits = TestStream
  /\ Cardinality(LessonSlots(Data)) = 2

\* the numbered step directories that are neither section nor solution steps
LessonSteps ==
  { e \in StepDirectories :
      IsSome(e.meta) /\ Head(Get(e.meta)) \notin { "section:", "solution:" } }

BranchLookedUp ==
  started # <<>> /\ error \notin { "Repository path does not exist", "is not a git repository" }

FetchInstructions ==
  { "exists remotely but not locally", "To use this branch, run the following commands:",
    "git fetch origin", "git checkout", "Then try running this tool again." }

\* C21: a branch that is missing locally and listed by the remote makes
\* validateGitorialRepo print the fetch instructions and fail with the error
\* that asks to fetch it first; whenever the branch is missing locally the
\* validation fails and the extraction never starts.
C21_RemoteOnlyBranchAsksToFetch ==
  (BranchLookedUp /\ ~localBranch) =>
    /\ pc = "failed" /\ error # ""
    /\ "extract" \notin Range(started)
    /\ (IsSome(remoteBranches) /\ branch \in Get(remoteBranches)) =>
         /\ FetchInstructions \subseteq Range(printed)
         /\ error = FetchFirst

\* the solution commits whose trimmed title is that of the commit at position t
SolutionsTitledAs(t) ==
  { x \in CommitsTagged("solution:") : CommitTitle(x) = CommitTitle(t) }

\* C22: in commit-history mode every template commit has one lesson, with at
\* most one solution; the solution attached is the first solution commit of the
\* stream whose trimmed title equals the template's, wherever it lies, and
\* none is attached when there is no such commit.
C22_FirstSolutionInStreamOrder ==
  ReturnedFromCommits =>
    \A t \in CommitsTagged("template:") :
      /\ Cardinality(LessonsOfTemplate(t)) = 1
      /\ \A at \in LessonsOfTemplate(t) :
           IF SolutionsTitledAs(t) = {}
           THEN LessonAt(Data, at).solutionHash = None
           ELSE \E x \in SolutionsTitledAs(t) :
                  /\ \A y \in SolutionsTitledAs(t) : x <= y
                  /\ LessonAt(Data, at).solutionHash = Some(commits[x].hash)

\* C22, its case: a template between two solution commits of its title; the
\* one before it is attached.
C22_Witness ==
  /\ ReturnedFromCommits
  /\ \E t \in CommitsTagged("template:") :
       /\ \E x \in SolutionsTitledAs(t) : \E y \in SolutionsTitledAs(t) : x < t /\ t < y
       /\ \E at \in LessonsOfTemplate(t) :
            \E x \in SolutionsTitledAs(t) :
              x < t /\ LessonAt(Data, at).solutionHash = Some(commits[x].hash)

\* the records that follow the step directory e in the ordered step stream,
\* and the first of them
StepsAfter(e) == { x \in StepDirectories : parseInt(x.name) > parseInt(e.name) }
NextStep(e) ==
  CHOOSE x \in StepsAfter(e) : \A y \in StepsAfter(e) : parseInt(x.name) <= parseInt(y.name)
FollowedBySolution(e) ==
  StepsAfter(e) # {} /\ Head(Get(NextStep(e).meta)) = "solution:"

\* C23, as stated: in directory-listing mode a template is paired exactly when
\* the record that follows it in the ordered step stream is a solution, and
\* the paired solution is that record, also across a gap in the numbers.
C23_PairedWithNextRecord ==
  ReturnedFromSteps =>
    \A e \in StepsTagged("template:") : \A at \in LessonsOfTemplateStep(e) :
      /\ IsSome(LessonAt(Data, at).solutionStep) <=> FollowedBySolution(e)
      /\ IsSome(LessonAt(Data, at).solutionStep) =>
           Get(LessonAt(Data, at).solutionStep).dir = NextStep(e).name

\* C23, amended: with distinct directory numbers, a template at number p is
\* paired exactly when the record that follows it in the ordered step stream
\* is a solution and has the number p + 1, and the paired solution is that
\* record; after a gap in the numbers the template has no solution, also when
\* the record that follows it is a solution.
C23_PairedWithNextNumber ==
  ReturnedFromSteps =>
    \A e \in StepsTagged("template:") : \A at \in LessonsOfTemplateStep(e) :
      /\ IsSome(LessonAt(Data, at).solutionStep) <=>
           (FollowedBySolution(e) /\ parseInt(NextStep(e).name) = parseInt(e.name) + 1)
      /\ IsSome(LessonAt(Data, at).solutionStep) =>
           Get(LessonAt(Data, at).solutionStep).dir = NextStep(e).name
      /\ (StepsAfter(e) # {} /\ parseInt(NextStep(e).name) > parseInt(e.name) + 1) =>
           /\ LessonAt(Data, at).solutionStep = None
           /\ LessonAt(Data, at).solutionContent = None

\* C23, its case: a template followed, across a gap in the numbers, by a
\* solution; its lesson is returned without a solution.
C23_Witness ==
  /\ ReturnedFromSteps
  /\ \E e \in StepsTagged("template:") :
       /\ FollowedBySolution(e)
       /\ parseInt(NextStep(e).name) = parseInt(e.name) + 2
       /\ \E at \in LessonsOfTemplateStep(e) :
            /\ LessonAt(Data, at).solutionStep = None
            /\ IsSome(LessonAt(Data, at).templateContent)

\* the lessons of the returned data that follow at least one section marker
AfterAMarker(lesson) == \E m \in MarkerPositions : m < LessonPosition(lesson)

\* the boundary positions of the returned sections are strictly increasing
BoundariesIncrease ==
  \A i \in DOMAIN Data : \A j \in DOMAIN Data :
    i < j => BoundaryPosition(Data[i]) < BoundaryPosition(Data[j])

\* the lesson lies after the boundary of section i and before the next one
WithinSection(i, lesson) ==
  /\ BoundaryPosition(Data[i]) < LessonPosition(lesson)
  /\ i < Len(Data) => LessonPosition(lesson) < BoundaryPosition(Data[i + 1])

\* C24, as stated: in data built from section markers the boundary positions
\* increase strictly along the sections, and every lesson lies after the
\* boundary of its section and before the boundary of the next section.
C24_LessonsWithinBoundaries ==
  (IsSome(result) /\ MarkerPositions # {}) =>
    /\ BoundariesIncrease
    /\ \A at \in LessonSlots(Data) : WithinSection(at[1], LessonAt(Data, at))

\* C24, amended: the boundary positions increase strictly along the sections;
\* every lesson that follows a section marker lies after the boundary of its
\* section and before the boundary of the next section; a lesson that
\* precedes every marker is in the first section, before its boundary.
C24_LessonsWithinBoundariesAfterMarker ==
  (IsSome(result) /\ MarkerPositions # {}) =>
    /\ BoundariesIncrease
    /\ { BoundaryPosition(Data[i]) : i \in DOMAIN Data } = MarkerPositions
    /\ \A at \in LessonSlots(Data) :
         IF AfterAMarker(LessonAt(Data, at))
         THEN WithinSection(at[1], LessonAt(Data, at))
         ELSE /\ at[1] = 1
              /\ LessonPosition(LessonAt(Data, at)) < BoundaryPosition(Data[1])

\* C24, its case: two sections from two markers and a lesson between the two
\* markers, in the first section.
C24_Witness ==
  /\ IsSome(result)
  /\ Len(Data) = 2
  /\ Len(Data[1].lessons) = 1
  /\ AfterAMarker(Data[1].lessons[1])
  /\ LessonPosition(Data[1].lessons[1]) < BoundaryPosition(Data[2])

\* how far the run has come: the commit pipeline lies before the steps
\* pipeline, the two ends after both
Progress ==
  [validate |-> 0, url |-> 1, structure |-> 2, failed |-> 20, slug |-> 0,
   entry |-> 3, commits |-> 4, grouped |-> 5, paired |-> 6, distributed |-> 7,
   steps |-> 8, stepsRead |-> 9, stepsOrganized |-> 10, stepsDistributed |-> 11,
   returned |-> 20, returnedSteps |-> 20, thrown |-> 20]

InCommitPipeline == pc \in { "commits", "grouped", "paired", "distributed", "returned" }
InStepsPipeline ==
  pc \in { "steps", "stepsRead", "stepsOrganized", "stepsDistributed", "returnedSteps" }

\* C25: every call of extractGitorialData ends with a GitorialData or an
\* error; no statement of a pipeline is run again once the run has moved on,
\* so each pipeline runs at most once, and the steps pipeline is left only by
\* its return or its error, never into the commit pipeline.
C25_ExtractionTerminates ==
  /\ (pc = "entry") ~> (IsSome(result) \/ pc = "thrown")
  /\ [][ /\ pc' # pc => Progress[pc'] > Progress[pc]
         /\ (InStepsPipeline /\ pc' # pc) => (InStepsPipeline' \/ pc' = "thrown")
         /\ (IsSome(result) \/ pc = "thrown") => (pc' = pc /\ result' = result) ]_vars

\* C25, its case: the fallback was taken and the steps pipeline returned.
C25_Witness ==
  /\ viaFallback
  /\ pc = "returnedSteps"
  /\ IsSome(result)
  /\ commits = <<>>
  /\ stepDirs # {}

\* the stages started so far are the first stages, in the order of the calls
StartedInOrder == \E n \in 0..Len(Stages) : started = SubSeq(Stages, 1, n)

Has(stage) == \E i \in DOMAIN started : started[i] = stage

\* C26: the stages start in the fixed order, each one with no error behind it;
\* once a stage has thrown no step is taken any more, the error is the one the
\* caller gets and the exit status is 1; the extraction starts only after a
\* successful validation (and the two later stages), the generation only with
\* a returned GitorialData.
C26_StagesInOrder ==
  /\ [](/\ StartedInOrder
        /\ (error # "") <=> (exitCode = Some(1))
        /\ Has("extract") =>
             /\ localBranch
             /\ printed[Len(printed)] = "Repository validation successful"
             /\ outputStructure = Some({ <<>>, << <<"sections">> >> })
        /\ Has("generate") => IsSome(result))
  /\ [][error = "" /\ exitCode = None]_vars

\* C26, its case: the third stage threw, the last two never started
C26_Witness ==
  /\ started = <<"validate", "url", "structure">>
  /\ error = "mkdir"
  /\ pc = "failed"
  /\ exitCode = Some(1)
  /\ result = None

\* the lesson precedes every section marker of the stream
BeforeEveryMarker(lesson) == \A m \in MarkerPositions : LessonPosition(lesson) < m

\* the records of the stream that make a lesson
LessonRecords ==
  IF ReturnedFromCommits
  THEN CommitsTagged("template:") \cup CommitsTagged("action:")
  ELSE { parseInt(e.name) : e \in LessonSteps }

\* C27: in either mode every lesson that precedes every section marker is in
\* the first section, and every record that makes a lesson has its lesson in
\* the returned data, the records before every marker included.
C27_LessonsBeforeMarkersInFirstSection ==
  IsSome(result) =>
    /\ \A at \in LessonSlots(Data) :
         BeforeEveryMarker(LessonAt(Data, at)) => at[1] = 1
    /\ \A r \in LessonRecords :
         \E at \in LessonSlots(Data) : LessonPosition(LessonAt(Data, at)) = r
    /\ Cardinality(LessonSlots(Data)) >= Cardinality(LessonRecords)

\* C27, its case: directory-listing data with two section markers and a
\* lesson numbered below both, in the first section.
C27_Witness ==
  /\ ReturnedFromSteps
  /\ Cardinality(MarkerPositions) = 2
  /\ \E at \in LessonSlots(Data) :
       /\ BeforeEveryMarker(LessonAt(Data, at))
       /\ at[1] = 1

\* the solution a returned lesson carries: the hash of a solution commit, the
\* directory of a solution step, or None
SolutionIdentity(lesson) ==
  IF ReturnedFromCommits THEN lesson.solutionHash
  ELSE IF IsSome(lesson.solutionStep) THEN Some(Get(lesson.solutionStep).dir) ELSE None

\* two lessons of the returned data with one solution
ShareASolution(at, bt) ==
  /\ at # bt
  /\ IsSome(SolutionIdentity(LessonAt(Data, at)))
  /\ SolutionIdentity(LessonAt(Data, at)) = SolutionIdentity(LessonAt(Data, bt))

SectionsHolding(secs, p) ==
  { i \in DOMAIN secs :
      \E j \in DOMAIN secs[i].lessons : secs[i].lessons[j].sourceHash = Some(HashOf(p)) }

BothAssigned == byCommits # None /\ bySteps # None

\* C29: on ascending boundary positions and ascending lesson positions the
\* assigner of the commit pipeline (carried index, later sections only) and the
\* assigner of the steps pipeline (fresh scan with break) put every lesson
\* into one section, the same for both.
C29_AssignersAgree ==
  BothAssigned =>
    \A p \in DOMAIN layout :
      layout[p] = "action:" =>
        /\ Cardinality(SectionsHolding(Get(byCommits), p)) = 1
        /\ SectionsHolding(Get(byCommits), p) = SectionsHolding(Get(bySteps), p)

\* C29, its case: two markers, a lesson before both and a lesson after both,
\* placed by both assigners
C29_Witness ==
  /\ BothAssigned
  /\ layout = <<"action:", "section:", "section:", "action:">>
  /\ SectionsHolding(Get(bySteps), 1) = { 1 }
  /\ SectionsHolding(Get(byCommits), 4) = { 2 }

\* extractDataFromSteps was called: by the choice of the pipeline or by the
\* fallback
StepsPipelineCalled == (branch = "master" /\ hasStepsDir) \/ viaFallback

\* what extractDataFromSteps returns for a listing and the tree its
\* snapshots are read from, computed from these two alone
StepsData(listing, tree) ==
  LET allOfThem == FirstPassOfSteps(SortedStepDirs(listing)).allSteps
      placed    == DistributeStepLessons(StepLessons(allOfThem), 1,
                                         SortSections(SectionsOfSteps(allOfThem)))
  IN StepContentLoop(placed, tree, <<>>)

\* C30: returned data has a section or more; an error of extractGitorialData
\* comes from the steps pipeline only, so the commit pipeline returns whatever
\* the tags are, with sections without lessons when no commit makes a lesson
\* and the fallback is not taken; data returned after the fallback is the
\* data of the steps pipeline for the listing, and so are the snapshots read.
C30_AtLeastOneSection ==
  /\ IsSome(result) => Len(Data) >= 1
  /\ pc = "thrown" => StepsPipelineCalled
  /\ (error # "" /\ Has("extract") /\ ~Has("generate")) => (pc = "thrown")
  /\ (ReturnedFromCommits /\ LessonRecords = {}) =>
       \A i \in DOMAIN Data : Data[i].lessons = <<>>
  /\ (ReturnedFromSteps /\ viaFallback) =>
       \E tree \in KnownTrees :
         /\ Data = StepsData(stepDirs, tree).sections
         /\ fetched = StepsData(stepDirs, tree).fetched
         /\ \A i \in DOMAIN Data : Data[i].hash = None

\* C30, its case: a log without a section, template or action commit and no
\* steps directory, returned as the default section without lessons.
C30_Witness ==
  /\ ReturnedFromCommits
  /\ ~hasStepsDir
  /\ commits # <<>>
  /\ MarkerPositions = {}
  /\ Len(Data) = 1
  /\ Data[1].lessons = <<>>

====
